---- MODULE Spec2Model ----
(***************************************************************************)
(* Model of the PDF text extraction extension.                             *)
(*                                                                         *)
(*   Spec      the privileged context (src/src/background.ts): the message *)
(*             listener, the offscreen (sandbox) lifecycle, the relays to  *)
(*             the sandbox and to the page, the tab listeners, the cache.  *)
(*   SpecAuto  the page-resident auto-extraction retry loop                *)
(*             (src/unnamed/part_000, attemptAutoExtraction) together with *)
(*             the privileged context's contentReady handler.              *)
(*                                                                         *)
(* Every JavaScript job (a listener invocation, the continuation of an     *)
(* await, a callback of the platform) is one action.  The jobs that the    *)
(* platform runs back to back in one microtask checkpoint are kept as      *)
(* separate actions, which only adds interleavings.                        *)
(***************************************************************************)
EXTENDS Integers, Sequences, FiniteSets, Bags, TLC

\* ---------------------------------------------------------------- bounds
\* the number of messages the listener receives in one run
MaxReq == 2
\* the number of browser tabs
NumTabs == 2
\* the largest element count of the page's DOM the model draws
MaxCount == 2

Tabs == 1..NumTabs
Urls == {"a.pdf", "b.pdf"}

\* the empty value of an optional field (null / undefined)
Null == [null |-> TRUE]

\* The record the library or the page produces for the document at url u.
\* Its text is opaque to the privileged context, which only stores and
\* forwards the record.
PDFContent(u) ==
  [title |-> u, url |-> u, textContent |-> "text", wordCount |-> 1, pageCount |-> 1]

VARIABLES
  currentPDFContent,         \* background.ts:13, Null or a record
  creating,                  \* background.ts:16, TRUE when the promise is set
  offscreenDocumentCreated,  \* background.ts:17
  createInFlight,            \* the platform's createDocument call is pending
  createCalls,               \* number of createDocument calls issued
  setupCalls,                \* number of setupOffscreenDocument calls made
  pending,                   \* the handlers that wait for a continuation
  finished,                  \* per finished handler, its number of responses
  activeTab,                 \* the browser's active tab
  tabUrl,                    \* the page each tab shows
  pageContent,               \* chrome.storage.local's pageContent entry
  lastResponse,              \* the last argument given to a sendResponse
  lastEvent,                 \* the kind of the job that ran last
  auto,                      \* attemptAutoExtraction's position
  sends,                     \* the contentReady messages the page sent
  injection,                 \* content.ts: extractBeforeInjection's position
  title,                     \* a locator and the titles derived from it
  words,                     \* a text and the records built from it
  viewer,                    \* extractFromChromePDFViewer's position
  offscreen,                 \* offscreen.ts: extractPDF's position
  extractor                  \* content.ts: PDFTextExtractorFallback's position

bgVars == <<currentPDFContent, creating, offscreenDocumentCreated, createInFlight,
            createCalls, setupCalls, pending, finished, activeTab, tabUrl,
            pageContent, lastResponse>>
\* the state of the page-resident scripts besides the retry loop, and of
\* the sandbox's extraction
pageVars == <<injection, title, words, viewer, offscreen, extractor>>
autoVars == <<auto, sends, pageVars>>
vars == <<bgVars, lastEvent, autoVars>>

\* ------------------------------------------------- the handlers in flight
\* `pending` is the bag of the listener invocations whose asynchronous
\* function waits for a continuation.  An entry holds the function (fn), the
\* url it was given, its position (pc), the tab an extractContent was sent to
\* (target, 0 for none) and, as history, whether a clear event happened while
\* its extraction was in flight (stale) and whether the target tab has
\* navigated since the send (gone).  `finished` is the bag of the numbers of
\* sendResponse invocations of the invocations that have nothing left to run.
Handler(fn, u, pc) ==
  [fn |-> fn, url |-> u, pc |-> pc, stale |-> FALSE, target |-> 0, gone |-> FALSE]

One(x) == SetToBag({x})
Waiting == BagToSet(pending)

\* the listener takes at most MaxReq messages in one run
Received == BagCardinality(pending) + BagCardinality(finished)
CanReceive == Received < MaxReq

\* a message's handling starts and waits
Start(q) == pending' = pending (+) One(q)
\* the handler q moves on to q2 and waits again
Continue(q, q2) == pending' = (pending (-) One(q)) (+) One(q2)
\* the handler q ends after n invocations of sendResponse
Finish(q, n) ==
  /\ pending' = pending (-) One(q)
  /\ finished' = finished (+) One(n)
\* a message handled within the listener call, with n invocations of sendResponse
Handled(n) ==
  /\ finished' = finished (+) One(n)
  /\ UNCHANGED pending

\* the responses: {success: true, data} and {success: false, error}; the
\* error strings are kept as "channel" (chrome.runtime.lastError), "fetch"
\* (the sandbox could not fetch the bytes) and "other"
Success(data) == [success |-> TRUE, data |-> data, error |-> "none"]
Failure(error) == [success |-> FALSE, data |-> Null, error |-> error]

\* ------------------------------------------------ sandbox lifecycle manager
\* setupOffscreenDocument up to its first await, called by the handler q:
\* it returns at once, joins the attempt in flight, or issues the creation
\* call.  After a return the caller's continuation sends the message to the
\* sandbox, so the handler then waits for the sandbox's reply.
setupOffscreenDocumentNoJoin(q) ==
  \* mutant: the `if (creating)` branch is missing
  /\ setupCalls' = [setupCalls EXCEPT !.total = @ + 1,
                                      !.ready = @ + (IF offscreenDocumentCreated THEN 1 ELSE 0)]
  /\ IF offscreenDocumentCreated
     THEN /\ Start([q EXCEPT !.pc = "awaitSandbox"])
          /\ UNCHANGED <<creating, createInFlight, createCalls>>
     ELSE /\ creating' = TRUE
          /\ createInFlight' = TRUE
          /\ createCalls' = createCalls + 1
          /\ Start([q EXCEPT !.pc = "awaitOwnCreating"])

setupOffscreenDocumentNoReadyCheck(q) ==
  \* mutant: the `if (offscreenDocumentCreated)` branch is missing
  /\ setupCalls' = [setupCalls EXCEPT !.total = @ + 1,
                                      !.ready = @ + (IF offscreenDocumentCreated THEN 1 ELSE 0)]
  /\ IF creating
     THEN /\ Start([q EXCEPT !.pc = "awaitCreating"])
          /\ UNCHANGED <<creating, createInFlight, createCalls>>
     ELSE /\ creating' = TRUE
          /\ createInFlight' = TRUE
          /\ createCalls' = createCalls + 1
          /\ Start([q EXCEPT !.pc = "awaitOwnCreating"])

setupOffscreenDocument(q) ==
  /\ setupCalls' = [setupCalls EXCEPT !.total = @ + 1,
                                      !.ready = @ + (IF offscreenDocumentCreated THEN 1 ELSE 0)]
  /\ IF offscreenDocumentCreated
     THEN /\ Start([q EXCEPT !.pc = "awaitSandbox"])
          /\ UNCHANGED <<creating, createInFlight, createCalls>>
     ELSE IF creating
     THEN /\ Start([q EXCEPT !.pc = "awaitCreating"])
          /\ UNCHANGED <<creating, createInFlight, createCalls>>
     ELSE /\ creating' = TRUE
          /\ createInFlight' = TRUE
          /\ createCalls' = createCalls + 1
          /\ Start([q EXCEPT !.pc = "awaitOwnCreating"])

CreateDocumentSettlesFlagOnSuccessOnly(ok) ==
  \* mutant: the catch block does not set the flag
  /\ createInFlight
  /\ createInFlight' = FALSE
  /\ offscreenDocumentCreated' = ok
  /\ lastEvent' = IF ok THEN "other" ELSE "creationRejected"
  /\ UNCHANGED <<currentPDFContent, creating, createCalls, setupCalls, pending, finished,
                 activeTab, tabUrl, pageContent, lastResponse, autoVars>>

\* The platform settles createDocument: the async block sets the flag when
\* the call resolves and, in its catch, when it rejects.
CreateDocumentSettles(ok) ==
  /\ createInFlight
  /\ createInFlight' = FALSE
  /\ offscreenDocumentCreated' = TRUE
  /\ lastEvent' = IF ok THEN "other" ELSE "creationRejected"
  /\ UNCHANGED <<currentPDFContent, creating, createCalls, setupCalls, pending, finished,
                 activeTab, tabUrl, pageContent, lastResponse, autoVars>>

CreatorResumesAnswersWithoutReply(q) ==
  \* mutant: the request is answered with a failure when its message is sent
  /\ q.pc = "awaitOwnCreating"
  /\ ~createInFlight
  /\ creating' = FALSE
  /\ Finish(q, 1)
  /\ lastResponse' = Failure("other")
  /\ lastEvent' = "other"
  /\ UNCHANGED <<currentPDFContent, offscreenDocumentCreated, createInFlight, createCalls,
                 setupCalls, activeTab, tabUrl, pageContent, autoVars>>

CreatorResumesKeepsMarker(q) ==
  \* mutant: `creating = null` is missing
  /\ q.pc = "awaitOwnCreating"
  /\ ~createInFlight
  /\ Continue(q, [q EXCEPT !.pc = "awaitSandbox"])
  /\ lastEvent' = "other"
  /\ UNCHANGED <<currentPDFContent, creating, offscreenDocumentCreated, createInFlight,
                 createCalls, setupCalls, finished, activeTab, tabUrl, pageContent,
                 lastResponse, autoVars>>

\* The caller that issued the creation call resumes after `await creating`,
\* resets the marker and returns; its extraction message goes to the sandbox.
CreatorResumes(q) ==
  /\ q.pc = "awaitOwnCreating"
  /\ ~createInFlight
  /\ creating' = FALSE
  /\ Continue(q, [q EXCEPT !.pc = "awaitSandbox"])
  /\ lastEvent' = "other"
  /\ UNCHANGED <<currentPDFContent, offscreenDocumentCreated, createInFlight, createCalls,
                 setupCalls, finished, activeTab, tabUrl, pageContent, lastResponse,
                 autoVars>>

WaiterResumesBeforeCreation(q) ==
  \* mutant: the caller does not await the attempt in flight
  /\ q.pc = "awaitCreating"
  /\ Continue(q, [q EXCEPT !.pc = "awaitSandbox"])
  /\ lastEvent' = "other"
  /\ UNCHANGED <<currentPDFContent, creating, offscreenDocumentCreated, createInFlight,
                 createCalls, setupCalls, finished, activeTab, tabUrl, pageContent,
                 lastResponse, autoVars>>

\* A caller that joined the attempt in flight resumes after `await creating`
\* and returns; its extraction message goes to the sandbox.
WaiterResumes(q) ==
  /\ q.pc = "awaitCreating"
  /\ ~createInFlight
  /\ Continue(q, [q EXCEPT !.pc = "awaitSandbox"])
  /\ lastEvent' = "other"
  /\ UNCHANGED <<currentPDFContent, creating, offscreenDocumentCreated, createInFlight,
                 createCalls, setupCalls, finished, activeTab, tabUrl, pageContent,
                 lastResponse, autoVars>>

\* ------------------------------------------------------------ the listener
\* notifySidepanel: the storage entry is replaced by the data
notifySidepanel(data) == pageContent' = data

\* case 'extractPDFFromBackground', sent by the page in tab t: with a url
\* extractPDFInBackground starts; without one nothing is called and the
\* listener returns false
OnExtractPDFFromBackground(t, hasUrl) ==
  /\ CanReceive
  /\ IF hasUrl
     THEN /\ setupOffscreenDocument(Handler("extractPDFInBackground", tabUrl[t], "start"))
          /\ UNCHANGED finished
     ELSE /\ Handled(0)
          /\ UNCHANGED <<creating, createInFlight, createCalls, setupCalls>>
  /\ lastEvent' = "other"
  /\ UNCHANGED <<currentPDFContent, offscreenDocumentCreated, activeTab, tabUrl,
                 pageContent, lastResponse, autoVars>>

OnExtractPDFInViewerAfterExtraction(hasUrl) ==
  \* mutant: the message is taken only when no extractPDFInBackground is pending
  /\ CanReceive
  /\ \A q \in Waiting : q.fn # "extractPDFInBackground"
  /\ IF hasUrl
     THEN /\ Start(Handler("extractPDFDirectly", "", "awaitQuery"))
          /\ UNCHANGED finished
     ELSE Handled(0)
  /\ lastEvent' = "other"
  /\ UNCHANGED <<currentPDFContent, creating, offscreenDocumentCreated, createInFlight,
                 createCalls, setupCalls, activeTab, tabUrl, pageContent, lastResponse,
                 autoVars>>

\* case 'extractPDFInViewer': with a url extractPDFDirectly runs up to its
\* await of tabs.query; without one nothing is called
OnExtractPDFInViewer(hasUrl) ==
  /\ CanReceive
  /\ IF hasUrl
     THEN /\ Start(Handler("extractPDFDirectly", "", "awaitQuery"))
          /\ UNCHANGED finished
     ELSE Handled(0)
  /\ lastEvent' = "other"
  /\ UNCHANGED <<currentPDFContent, creating, offscreenDocumentCreated, createInFlight,
                 createCalls, setupCalls, activeTab, tabUrl, pageContent, lastResponse,
                 autoVars>>

ContentReadyHandlerNoStore(data) ==
  \* mutant: the assignment to currentPDFContent is missing
  /\ CanReceive
  /\ IF data # Null
     THEN /\ notifySidepanel(data)
          /\ UNCHANGED currentPDFContent
     ELSE UNCHANGED <<currentPDFContent, pageContent>>
  /\ Handled(1)
  /\ lastResponse' = Success(Null)
  /\ lastEvent' = IF data # Null THEN "write" ELSE "other"

ContentReadyHandlerStoresMissingData(data) ==
  \* mutant: message.data is stored without the test
  /\ CanReceive
  /\ currentPDFContent' = data
  /\ notifySidepanel(data)
  /\ Handled(1)
  /\ lastResponse' = Success(Null)
  /\ lastEvent' = IF data # Null THEN "write" ELSE "other"

\* case 'contentReady'; data is Null when the message has no data field
ContentReadyHandler(data) ==
  /\ CanReceive
  /\ IF data # Null
     THEN /\ currentPDFContent' = data
          /\ notifySidepanel(data)
     ELSE UNCHANGED <<currentPDFContent, pageContent>>
  /\ Handled(1)
  /\ lastResponse' = Success(Null)
  /\ lastEvent' = IF data # Null THEN "write" ELSE "other"

\* a contentReady message of the page in tab t
OnContentReady(t, hasData) ==
  /\ ContentReadyHandler(IF hasData THEN PDFContent(tabUrl[t]) ELSE Null)
  /\ UNCHANGED <<creating, offscreenDocumentCreated, createInFlight, createCalls,
                 setupCalls, activeTab, tabUrl, autoVars>>

OnGetPageContentAlwaysExtracts ==
  \* mutant: the cache is not looked at
  /\ CanReceive
  /\ Start(Handler("extractContentFromActiveTab", "", "awaitQuery"))
  /\ lastEvent' = "other"
  /\ UNCHANGED <<finished, lastResponse>>
  /\ UNCHANGED <<currentPDFContent, creating, offscreenDocumentCreated, createInFlight,
                 createCalls, setupCalls, activeTab, tabUrl, pageContent, autoVars>>

\* case 'getPageContent': answered from the cache, or extractContentFromActiveTab
\* runs up to its await of tabs.query
OnGetPageContent ==
  /\ CanReceive
  /\ IF currentPDFContent # Null
     THEN /\ Handled(1)
          /\ lastResponse' = Success(currentPDFContent)
          /\ lastEvent' = "cacheHit"
     ELSE /\ Start(Handler("extractContentFromActiveTab", "", "awaitQuery"))
          /\ lastEvent' = "other"
          /\ UNCHANGED <<finished, lastResponse>>
  /\ UNCHANGED <<currentPDFContent, creating, offscreenDocumentCreated, createInFlight,
                 createCalls, setupCalls, activeTab, tabUrl, pageContent, autoVars>>

\* case 'requestContent': extractContentFromActiveTab up to its await
OnRequestContent ==
  /\ CanReceive
  /\ Start(Handler("extractContentFromActiveTab", "", "awaitQuery"))
  /\ lastEvent' = "other"
  /\ UNCHANGED <<currentPDFContent, creating, offscreenDocumentCreated, createInFlight,
                 createCalls, setupCalls, finished, activeTab, tabUrl, pageContent,
                 lastResponse, autoVars>>

\* default: any other action tag
OnUnknownAction ==
  /\ CanReceive
  /\ Handled(1)
  /\ lastResponse' = Failure("other")
  /\ lastEvent' = "other"
  /\ UNCHANGED <<currentPDFContent, creating, offscreenDocumentCreated, createInFlight,
                 createCalls, setupCalls, activeTab, tabUrl, pageContent, autoVars>>

\* ------------------------------------------------- the relay to the sandbox
SandboxOutcomes == {"lastError", "ok", "fetchFail", "parseFail"}

\* The sandbox's listener (offscreen.ts): extractPDF resolves with the record,
\* or throws 'Failed to fetch PDF' when the fetch's response is not ok, or
\* rejects with the library's error; the listener's catch turns both into a
\* success=false response that carries the message.
OffscreenResponse(url, outcome) ==
  CASE outcome = "ok" -> Success(PDFContent(url))
    [] outcome = "fetchFail" -> Failure("fetch")
    [] OTHER -> Failure("other")

\* the kind of the job in which a relay's callback handled the outcome
ReplyEvent(outcome) ==
  CASE outcome = "lastError" -> "channelError"
    [] outcome = "ok" -> "write"
    [] OTHER -> "libraryFailure"

SandboxRepliesWithFallback(q, outcome) ==
  \* mutant: a byte-fetch failure is re-delegated to the page in the active tab
  /\ q.pc = "awaitSandbox"
  /\ CASE outcome = "lastError" ->
            /\ lastResponse' = Failure("channel")
            /\ Finish(q, 1)
            /\ UNCHANGED currentPDFContent
       [] outcome = "ok" ->
            /\ currentPDFContent' = PDFContent(q.url)
            /\ lastResponse' = Success(PDFContent(q.url))
            /\ Finish(q, 1)
       [] outcome = "fetchFail" ->
            /\ Continue(q, [q EXCEPT !.fn = "extractPDFDirectly", !.pc = "awaitPage",
                                     !.target = activeTab])
            /\ UNCHANGED <<currentPDFContent, lastResponse, finished>>
       [] OTHER ->
            /\ lastResponse' = Failure("other")
            /\ Finish(q, 1)
            /\ UNCHANGED currentPDFContent
  /\ lastEvent' = ReplyEvent(outcome)
  /\ UNCHANGED <<creating, offscreenDocumentCreated, createInFlight, createCalls,
                 setupCalls, activeTab, tabUrl, pageContent, autoVars>>

SandboxRepliesStoresAnyResponse(q, outcome) ==
  \* mutant: the cache takes response.data before response.success is looked at
  /\ q.pc = "awaitSandbox"
  /\ CASE outcome = "lastError" ->
            /\ lastResponse' = Failure("channel")
            /\ UNCHANGED currentPDFContent
       [] outcome = "ok" ->
            /\ currentPDFContent' = OffscreenResponse(q.url, outcome).data
            /\ lastResponse' = Success(OffscreenResponse(q.url, outcome).data)
       [] OTHER ->
            /\ currentPDFContent' = OffscreenResponse(q.url, outcome).data
            /\ lastResponse' = Failure(OffscreenResponse(q.url, outcome).error)
  /\ Finish(q, 1)
  /\ lastEvent' = ReplyEvent(outcome)
  /\ UNCHANGED <<creating, offscreenDocumentCreated, createInFlight, createCalls,
                 setupCalls, activeTab, tabUrl, pageContent, autoVars>>

SandboxRepliesNotifiesSidepanel(q, outcome) ==
  \* mutant: a successful result is written to the storage entry too
  /\ q.pc = "awaitSandbox"
  /\ CASE outcome = "lastError" ->
            /\ lastResponse' = Failure("channel")
            /\ UNCHANGED <<currentPDFContent, pageContent>>
       [] outcome = "ok" ->
            /\ currentPDFContent' = OffscreenResponse(q.url, outcome).data
            /\ notifySidepanel(OffscreenResponse(q.url, outcome).data)
            /\ lastResponse' = Success(OffscreenResponse(q.url, outcome).data)
       [] OTHER ->
            /\ lastResponse' = Failure(OffscreenResponse(q.url, outcome).error)
            /\ UNCHANGED <<currentPDFContent, pageContent>>
  /\ Finish(q, 1)
  /\ lastEvent' = ReplyEvent(outcome)
  /\ UNCHANGED <<creating, offscreenDocumentCreated, createInFlight, createCalls,
                 setupCalls, activeTab, tabUrl, autoVars>>

\* The callback of chrome.runtime.sendMessage in extractPDFInBackground.
\* "lastError": the platform reports a channel error; "ok": the sandbox's
\* extractPDF succeeded; "fetchFail" / "parseFail": it answered success=false
\* because the bytes could not be fetched / the library rejected them.
SandboxReplies(q, outcome) ==
  /\ q.pc = "awaitSandbox"
  /\ CASE outcome = "lastError" ->
            /\ lastResponse' = Failure("channel")
            /\ UNCHANGED currentPDFContent
       [] outcome = "ok" ->
            /\ currentPDFContent' = OffscreenResponse(q.url, outcome).data
            /\ lastResponse' = Success(OffscreenResponse(q.url, outcome).data)
       [] OTHER ->
            /\ lastResponse' = Failure(OffscreenResponse(q.url, outcome).error)
            /\ UNCHANGED currentPDFContent
  /\ Finish(q, 1)
  /\ lastEvent' = ReplyEvent(outcome)
  /\ UNCHANGED <<creating, offscreenDocumentCreated, createInFlight, createCalls,
                 setupCalls, activeTab, tabUrl, pageContent, autoVars>>

\* --------------------------------------------------- the relay to the page
QueryOutcomes == {"tab", "none", "reject"}

\* chrome.tabs.query settles in extractContentFromActiveTab or in
\* extractPDFDirectly: without a tab, or when the query rejects, the request
\* is answered with a failure; otherwise extractContent goes to the active tab.
QuerySettles(q, outcome) ==
  /\ q.pc = "awaitQuery"
  /\ IF outcome = "tab"
     THEN /\ Continue(q, [q EXCEPT !.pc = "awaitPage", !.target = activeTab])
          /\ UNCHANGED <<finished, lastResponse>>
     ELSE /\ Finish(q, 1)
          /\ lastResponse' = Failure("other")
  /\ lastEvent' = "other"
  /\ UNCHANGED <<currentPDFContent, creating, offscreenDocumentCreated, createInFlight,
                 createCalls, setupCalls, activeTab, tabUrl, pageContent, autoVars>>

PageOutcomes == {"lastError", "ok", "fail"}

PageRepliesToActiveTabRequestDropsError(q, outcome) ==
  \* mutant: on chrome.runtime.lastError the callback returns without a response
  /\ q.pc = "awaitPage"
  /\ q.fn = "extractContentFromActiveTab"
  /\ outcome # "lastError" => ~q.gone
  /\ CASE outcome = "lastError" ->
            /\ Finish(q, 0)
            /\ UNCHANGED <<currentPDFContent, lastResponse>>
       [] outcome = "ok" ->
            /\ currentPDFContent' = PDFContent(tabUrl[q.target])
            /\ lastResponse' = Success(PDFContent(tabUrl[q.target]))
            /\ Finish(q, 1)
       [] OTHER ->
            /\ lastResponse' = Failure("other")
            /\ Finish(q, 1)
            /\ UNCHANGED currentPDFContent
  /\ lastEvent' = CASE outcome = "lastError" -> "channelError"
                    [] outcome = "ok" -> "write"
                    [] OTHER -> "other"
  /\ UNCHANGED <<creating, offscreenDocumentCreated, createInFlight, createCalls,
                 setupCalls, activeTab, tabUrl, pageContent, autoVars>>

PageRepliesToActiveTabRequestKeepsExisting(q, outcome) ==
  \* mutant: a result is stored only while the cache is empty
  /\ q.pc = "awaitPage"
  /\ q.fn = "extractContentFromActiveTab"
  /\ outcome # "lastError" => ~q.gone
  /\ CASE outcome = "lastError" ->
            /\ lastResponse' = Failure("channel")
            /\ UNCHANGED currentPDFContent
       [] outcome = "ok" ->
            /\ currentPDFContent' = IF currentPDFContent = Null
                                    THEN PDFContent(tabUrl[q.target])
                                    ELSE currentPDFContent
            /\ lastResponse' = Success(PDFContent(tabUrl[q.target]))
       [] OTHER ->
            /\ lastResponse' = Failure("other")
            /\ UNCHANGED currentPDFContent
  /\ Finish(q, 1)
  /\ lastEvent' = CASE outcome = "lastError" -> "channelError"
                    [] outcome = "ok" -> "write"
                    [] OTHER -> "other"
  /\ UNCHANGED <<creating, offscreenDocumentCreated, createInFlight, createCalls,
                 setupCalls, activeTab, tabUrl, pageContent, autoVars>>

\* The callback of chrome.tabs.sendMessage in extractContentFromActiveTab.
\* The page answers only while it is still the page the message was sent to.
PageRepliesToActiveTabRequest(q, outcome) ==
  /\ q.pc = "awaitPage"
  /\ q.fn = "extractContentFromActiveTab"
  /\ outcome # "lastError" => ~q.gone
  /\ CASE outcome = "lastError" ->
            /\ lastResponse' = Failure("channel")
            /\ UNCHANGED currentPDFContent
       [] outcome = "ok" ->
            /\ currentPDFContent' = PDFContent(tabUrl[q.target])
            /\ lastResponse' = Success(PDFContent(tabUrl[q.target]))
       [] OTHER ->
            /\ lastResponse' = Failure("other")
            /\ UNCHANGED currentPDFContent
  /\ Finish(q, 1)
  /\ lastEvent' = CASE outcome = "lastError" -> "channelError"
                    [] outcome = "ok" -> "write"
                    [] OTHER -> "other"
  /\ UNCHANGED <<creating, offscreenDocumentCreated, createInFlight, createCalls,
                 setupCalls, activeTab, tabUrl, pageContent, autoVars>>

\* The callback of chrome.tabs.sendMessage in extractPDFDirectly: the page's
\* response is passed on as it is; the cache is not written.
PageRepliesToViewerRequest(q, outcome) ==
  /\ q.pc = "awaitPage"
  /\ q.fn = "extractPDFDirectly"
  /\ outcome # "lastError" => ~q.gone
  /\ lastResponse' = CASE outcome = "lastError" -> Failure("channel")
                       [] outcome = "ok" -> Success(PDFContent(tabUrl[q.target]))
                       [] OTHER -> Failure("other")
  /\ Finish(q, 1)
  /\ lastEvent' = IF outcome = "lastError" THEN "channelError" ELSE "other"
  /\ UNCHANGED <<currentPDFContent, creating, offscreenDocumentCreated, createInFlight,
                 createCalls, setupCalls, activeTab, tabUrl, pageContent, autoVars>>

\* ------------------------------------------------------- the tab listeners
\* history: a clear event marks the extractions in flight whose result the
\* cache would take; a navigation of tab t tears down the page a pending
\* extractContent was sent to
Marked(q, t) ==
  [q EXCEPT !.stale = @ \/ (q.fn # "extractPDFDirectly"),
            !.gone = @ \/ (q.pc = "awaitPage" /\ q.target = t)]

MarkStale(t) ==
  [x \in {Marked(q, t) : q \in Waiting} |->
     BagCardinality([q \in {p \in Waiting : Marked(p, t) = x} |-> pending[q]])]

\* chrome.tabs.onUpdated with status 'loading': tab t starts a navigation to u
TabUpdatedLoading(t, u) ==
  /\ tabUrl' = [tabUrl EXCEPT ![t] = u]
  /\ currentPDFContent' = Null
  /\ pending' = MarkStale(t)
  /\ lastEvent' = "clear"
  /\ UNCHANGED <<creating, offscreenDocumentCreated, createInFlight, createCalls,
                 setupCalls, finished, activeTab, pageContent, lastResponse, autoVars>>

\* chrome.tabs.onUpdated with another status: nothing is cleared
TabUpdatedOther(t) ==
  /\ lastEvent' = "other"
  /\ UNCHANGED <<bgVars, autoVars>>

TabActivatedKeepsCache(t) ==
  \* mutant: the listener does not clear the cache
  /\ t # activeTab
  /\ activeTab' = t
  /\ pending' = MarkStale(0)
  /\ lastEvent' = "clear"
  /\ UNCHANGED <<currentPDFContent, creating, offscreenDocumentCreated, createInFlight,
                 createCalls, setupCalls, finished, tabUrl, pageContent, lastResponse,
                 autoVars>>

\* chrome.tabs.onActivated: tab t becomes the active tab
TabActivated(t) ==
  /\ t # activeTab
  /\ activeTab' = t
  /\ currentPDFContent' = Null
  /\ pending' = MarkStale(0)
  /\ lastEvent' = "clear"
  /\ UNCHANGED <<creating, offscreenDocumentCreated, createInFlight, createCalls,
                 setupCalls, finished, tabUrl, pageContent, lastResponse, autoVars>>

\* ------------------------------------ the page's auto-extraction retry loop
maxRetries == 3

\* the page that runs the loop
AutoTab == 1

\* the element counts estimatePageCount reads: [data-page-number], .page,
\* .textLayer, and the N of a printed "Page X of N" (0 when there is none)
Doms == [dataPageNumber : 0..MaxCount, page : 0..MaxCount,
         textLayer : 0..MaxCount, pageOfN : 0..MaxCount]

\* estimatePageCount: the first positive indicator, 1 when there is none
estimatePageCount(d) ==
  IF d.dataPageNumber > 0 THEN d.dataPageNumber
  ELSE IF d.page > 0 THEN d.page
  ELSE IF d.textLayer > 0 THEN d.textLayer
  ELSE IF d.pageOfN > 0 THEN d.pageOfN
  ELSE 1

ViewerRecordRawCount(u, d) ==
  \* mutant: the record takes the count of text layers as it is
  [PDFContent(u) EXCEPT !.pageCount = d.textLayer]

\* the record extractFromChromePDFViewer builds: pageCount || 1
ViewerRecord(u, d) ==
  [PDFContent(u) EXCEPT !.pageCount = IF estimatePageCount(d) = 0 THEN 1
                                      ELSE estimatePageCount(d)]

\* the record extractFallbackText builds from the body's text
FallbackRecord(u) == [PDFContent(u) EXCEPT !.pageCount = 1]

\* the ways extractPDFContent settles: with the viewer's record, with the
\* record of the body's text, or by throwing
ExtractOutcomes == {"viewer", "fallback", "throw"}

\* the record attemptAutoExtraction sends when the last attempt throws
FailureRecord(u) ==
  [title |-> "PDF Document", url |-> u,
   textContent |-> "Failed to extract PDF content automatically.",
   wordCount |-> 0, pageCount |-> 0]

delayUncapped(retryCount) ==
  \* mutant: the delay doubles without a cap
  2000 * 2^retryCount

\* Math.min(2000 * Math.pow(2, retryCount), 10000)
delay(retryCount) ==
  IF 2000 * 2^retryCount < 10000 THEN 2000 * 2^retryCount ELSE 10000

\* attemptAutoExtraction(retryCount): the timer is armed with the delay
attemptAutoExtraction(retryCount) ==
  [pc |-> "timer", retryCount |-> retryCount, delay |-> delay(retryCount),
   content |-> Null]

\* the timer's callback starts: extractPDFContent is awaited
TimerFires ==
  /\ auto.pc = "timer"
  /\ auto' = [auto EXCEPT !.pc = "extracting"]
  /\ lastEvent' = "other"
  /\ UNCHANGED <<bgVars, sends, pageVars>>

\* extractPDFContent settles: with a record, which is sent, or by throwing,
\* which retries or, on the last attempt, sends the failure record
ExtractSettles(outcome, d) ==
  /\ auto.pc = "extracting"
  /\ auto' = IF outcome = "viewer"
             THEN [auto EXCEPT !.pc = "sending", !.content = ViewerRecord(tabUrl[AutoTab], d)]
             ELSE IF outcome = "fallback"
             THEN [auto EXCEPT !.pc = "sending", !.content = FallbackRecord(tabUrl[AutoTab])]
             ELSE IF auto.retryCount < maxRetries
             THEN attemptAutoExtraction(auto.retryCount + 1)
             ELSE [auto EXCEPT !.pc = "sendingFailure",
                               !.content = FailureRecord(tabUrl[AutoTab])]
  /\ lastEvent' = "other"
  /\ UNCHANGED <<bgVars, sends, pageVars>>

\* safelySendMessage: the channel delivers the message to the privileged
\* context's listener and resolves true, or fails and resolves false
safelySendMessage(delivered, failure) ==
  /\ sends' = Append(sends, [data |-> auto.content, failure |-> failure, ok |-> delivered])
  /\ IF delivered
     THEN ContentReadyHandler(auto.content)
     ELSE /\ lastEvent' = "other"
          /\ UNCHANGED <<currentPDFContent, pageContent, pending, finished, lastResponse>>
  /\ UNCHANGED <<creating, offscreenDocumentCreated, createInFlight, createCalls,
                 setupCalls, activeTab, tabUrl>>

\* the send of the extracted record settles: a failed send retries while
\* retryCount < maxRetries and otherwise only logs
SendSettles(delivered) ==
  /\ auto.pc = "sending"
  /\ safelySendMessage(delivered, FALSE)
  /\ auto' = IF ~delivered /\ auto.retryCount < maxRetries
             THEN attemptAutoExtraction(auto.retryCount + 1)
             ELSE [auto EXCEPT !.pc = "done"]
  /\ UNCHANGED pageVars

\* the send of the failure record settles; its result is not looked at
FailureSendSettles(delivered) ==
  /\ auto.pc = "sendingFailure"
  /\ safelySendMessage(delivered, TRUE)
  /\ auto' = [auto EXCEPT !.pc = "done"]
  /\ UNCHANGED pageVars

\* ------------------------------- the page's request before injection (content.ts)
\* the record extractBeforeInjection keeps when the request fails
InjectionFailureRecord(u) ==
  [title |-> "PDF Document", url |-> u, textContent |-> "Failed to extract text from PDF",
   wordCount |-> 0, pageCount |-> 1]

InjectionOutcomes == {"lastError", "ok", "fail"}

extractBeforeInjectionSendsPlaceholder(outcome) ==
  \* mutant: the failure record is sent to the privileged context too
  /\ injection.pc = "requesting"
  /\ LET response == CASE outcome = "lastError" -> Failure("channel")
                        [] outcome = "ok" -> Success(PDFContent(tabUrl[AutoTab]))
                        [] OTHER -> Failure("other")
     IN injection' =
          [pc |-> "sendToBackground", outcome |-> outcome, response |-> response,
           extractedContent |-> IF response.success /\ response.data # Null
                                THEN response.data
                                ELSE InjectionFailureRecord(tabUrl[AutoTab])]
  /\ lastEvent' = "other"
  /\ UNCHANGED <<bgVars, auto, sends, title, words, viewer, offscreen, extractor>>

\* The callback of the page's extractPDFFromBackground request and the rest
\* of extractBeforeInjection: a channel error resolves to a success=false
\* response with the platform's message; a response without success or
\* data throws, and the catch keeps the failure record.
extractBeforeInjection(outcome) ==
  /\ injection.pc = "requesting"
  /\ LET response == CASE outcome = "lastError" -> Failure("channel")
                        [] outcome = "ok" -> Success(PDFContent(tabUrl[AutoTab]))
                        [] OTHER -> Failure("other")
     IN injection' =
          IF response.success /\ response.data # Null
          THEN [pc |-> "sendToBackground", outcome |-> outcome, response |-> response,
                extractedContent |-> response.data]
          ELSE [pc |-> "done", outcome |-> outcome, response |-> response,
                extractedContent |-> InjectionFailureRecord(tabUrl[AutoTab])]
  /\ lastEvent' = "other"
  /\ UNCHANGED <<bgVars, auto, sends, title, words, viewer, offscreen, extractor>>

\* sendToBackground: the contentReady message reaches the listener, or the
\* channel fails and the callback only warns
sendToBackground(delivered) ==
  /\ injection.pc = "sendToBackground"
  /\ injection' = [injection EXCEPT !.pc = "done"]
  /\ IF delivered
     THEN ContentReadyHandler(injection.extractedContent)
     ELSE /\ lastEvent' = "other"
          /\ UNCHANGED <<currentPDFContent, pageContent, pending, finished, lastResponse>>
  /\ UNCHANGED <<creating, offscreenDocumentCreated, createInFlight, createCalls,
                 setupCalls, activeTab, tabUrl, auto, sends, title, words, viewer, offscreen, extractor>>

\* ------------------------------------------------------- title derivation
\* Strings are sequences of characters.  A locator either does not parse
\* (the empty string, a string without a scheme) or is an absolute locator,
\* of which the model keeps the last path segment as it is written.
MaxTokens == 3

\* the pieces the model builds a segment from
TitleTokens == {<<"a">>, <<".", "p", "d", "f">>, <<"%", "2", "E">>, <<"p", "d", "f">>,
                <<"%">>, <<"2", "E">>}

RECURSIVE Segments(_)
Segments(n) ==
  IF n = 0 THEN {<<>>}
  ELSE Segments(n - 1) \cup {s \o t : s \in Segments(n - 1), t \in TitleTokens}

Locators ==
  {[kind |-> k, last |-> <<>>] : k \in {"empty", "relative"}}
    \cup {[kind |-> "absolute", last |-> s] : s \in Segments(MaxTokens)}

DefaultLabel == <<"PDF Document">>

\* a result or a thrown exception
Returned(v) == [threw |-> FALSE, value |-> v]
Thrown == [threw |-> TRUE, value |-> <<>>]

\* the first index at which pat occurs in s, 0 when it does not occur
IndexOf(s, pat) ==
  LET hits == {i \in 1..(Len(s) - Len(pat) + 1) : SubSeq(s, i, i + Len(pat) - 1) = pat}
  IN IF hits = {} THEN 0 ELSE CHOOSE i \in hits : \A j \in hits : i <= j

\* String.prototype.replace(pat, ''): the first occurrence is removed
replace(s, pat) ==
  LET i == IndexOf(s, pat)
  IN IF i = 0 THEN s ELSE SubSeq(s, 1, i - 1) \o SubSeq(s, i + Len(pat), Len(s))

\* decodeURIComponent: over the model's characters the only escape that
\* decodes is %2E ('.'); any other '%' makes it throw URIError
RECURSIVE decodeURIComponent(_)
decodeURIComponent(s) ==
  IF s = <<>> THEN Returned(<<>>)
  ELSE IF Head(s) = "%"
  THEN IF Len(s) >= 3 /\ SubSeq(s, 2, 3) = <<"2", "E">>
       THEN LET rest == decodeURIComponent(SubSeq(s, 4, Len(s)))
            IN IF rest.threw THEN Thrown ELSE Returned(<<".">> \o rest.value)
       ELSE Thrown
  ELSE LET rest == decodeURIComponent(Tail(s))
       IN IF rest.threw THEN Thrown ELSE Returned(<<Head(s)>> \o rest.value)

\* new URL(url).pathname.split('/').pop() || '': the constructor throws for a
\* string that does not parse; the parser drops a last segment that is a
\* single-dot or double-dot segment, written with '.' or with %2E
fileName(loc) ==
  IF loc.kind # "absolute" THEN Thrown
  ELSE LET dots == decodeURIComponent(loc.last)
       IN IF ~dots.threw /\ dots.value \in {<<".">>, <<".", ".">>}
          THEN Returned(<<>>)
          ELSE Returned(loc.last)

extractTitleFromURLNoCatch(loc) ==
  \* mutant: the try/catch is missing
  IF fileName(loc).threw THEN Thrown
  ELSE decodeURIComponent(replace(fileName(loc).value, <<".", "p", "d", "f">>))

\* extractTitleFromURL of offscreen.ts and content.ts
extractTitleFromURL(loc) ==
  IF fileName(loc).threw THEN Returned(DefaultLabel)
  ELSE LET decoded == decodeURIComponent(replace(fileName(loc).value, <<".", "p", "d", "f">>))
       IN IF decoded.threw THEN Returned(DefaultLabel) ELSE decoded

\* extractTitleFromURL of the older page script: title || 'PDF Document'
PDFTextExtractor_extractTitleFromURL(loc) ==
  IF extractTitleFromURL(loc).value = <<>>
  THEN Returned(DefaultLabel)
  ELSE extractTitleFromURL(loc)

TitleIdle == [pc |-> "idle", locator |-> Null, sandbox |-> Null, viewer |-> Null]

\* the sandbox derives the title of its record
SandboxDerivesTitle ==
  /\ title.pc = "input"
  /\ title.sandbox = Null
  /\ title' = [title EXCEPT !.sandbox = extractTitleFromURL(title.locator)]
  /\ lastEvent' = "other"
  /\ UNCHANGED <<bgVars, auto, sends, injection, words, viewer, offscreen, extractor>>

\* the older page script derives the title of its record
ViewerDerivesTitle ==
  /\ title.pc = "input"
  /\ title.viewer = Null
  /\ title' = [title EXCEPT !.viewer = PDFTextExtractor_extractTitleFromURL(title.locator)]
  /\ lastEvent' = "other"
  /\ UNCHANGED <<bgVars, auto, sends, injection, words, viewer, offscreen, extractor>>

\* ------------------------------------------------- texts and word counts
\* A text is kept as its runs: a run is n word characters (w) or n
\* whitespace characters, and neighbouring runs differ in kind.  The run
\* lengths reach the three truncation ceilings of the code.
MaxRuns == 3
RunLengths == {1, 60, 999, 9999, 49999}

RECURSIVE TextsOf(_)
TextsOf(n) ==
  IF n = 0 THEN {<<>>}
  ELSE TextsOf(n - 1)
         \cup {Append(t, [w |-> w, n |-> k]) :
                 t \in {x \in TextsOf(n - 1) : Len(x) = n - 1}, w \in BOOLEAN,
                 k \in RunLengths}

Texts == {t \in TextsOf(MaxRuns) : \A i \in 1..(Len(t) - 1) : t[i].w # t[i + 1].w}

\* text.length
RECURSIVE Length(_)
Length(t) == IF t = <<>> THEN 0 ELSE Head(t).n + Length(Tail(t))

\* text.substring(0, c)
RECURSIVE substring(_, _)
substring(t, c) ==
  IF t = <<>> \/ c <= 0 THEN <<>>
  ELSE IF Head(t).n >= c THEN <<[Head(t) EXCEPT !.n = c]>>
  ELSE <<Head(t)>> \o substring(Tail(t), c - Head(t).n)

\* countWords: text.split(/\s+/).filter(word => word.length > 0).length
countWords(t) == Cardinality({i \in 1..Len(t) : t[i].w})

\* bodyText.replace(/\s+/g, ' ').trim()
cleanText(t) ==
  LET first == IF t # <<>> /\ ~t[1].w THEN 2 ELSE 1
      last == IF t # <<>> /\ ~t[Len(t)].w THEN Len(t) - 1 ELSE Len(t)
      inner == IF first > last THEN <<>> ELSE SubSeq(t, first, last)
  IN [i \in 1..Len(inner) |-> IF inner[i].w THEN inner[i] ELSE [inner[i] EXCEPT !.n = 1]]

\* a text written out word by word, with single spaces
Sentence(lens) ==
  [i \in 1..(2 * Len(lens) - 1) |->
     IF i % 2 = 1 THEN [w |-> TRUE, n |-> lens[(i + 1) \div 2]] ELSE [w |-> FALSE, n |-> 1]]

\* 'No text could be extracted from this PDF.'
NoTextPlaceholder == Sentence(<<2, 4, 5, 2, 9, 4, 4, 4>>)

\* generateExtractionReport: the report, kept as its first line
\* 'PDF Document Analysis:'; the lines after it are part of the text and of
\* the count alike
generateExtractionReport == Sentence(<<3, 8, 9>>)

SandboxTextUncut(fullText) ==
  \* mutant: the text of all pages is returned whole
  [textContent |-> fullText, wordCount |-> countWords(fullText)]

\* extractPDF of the sandbox: the text of all pages is counted, then cut
SandboxText(fullText) ==
  [textContent |-> substring(fullText, 50000), wordCount |-> countWords(fullText)]

ViewerTextNoReport(chainText) ==
  \* mutant: a missing text is not replaced by the report
  [textContent |-> substring(chainText, 10000), wordCount |-> countWords(chainText)]

\* extractFromChromePDFViewer after the chain: a missing or short text is
\* replaced by the report, the text is counted, then cut
ViewerText(chainText) ==
  LET textContent == IF chainText = <<>> \/ Length(chainText) < 20
                     THEN generateExtractionReport
                     ELSE chainText
  IN [textContent |-> substring(textContent, 10000), wordCount |-> countWords(textContent)]

\* extractFallbackText: the cleaned body text is cut, an empty cut is
\* replaced by the placeholder, and the cleaned text is counted
FallbackText(bodyText) ==
  [textContent |-> IF substring(cleanText(bodyText), 1000) = <<>>
                   THEN NoTextPlaceholder
                   ELSE substring(cleanText(bodyText), 1000),
   wordCount |-> countWords(cleanText(bodyText))]

WordsIdle == [pc |-> "idle", text |-> <<>>, sandbox |-> Null, viewer |-> Null,
              fallback |-> Null]

\* the sandbox builds its record from the text of the pages
SandboxBuildsRecord ==
  /\ words.pc = "input"
  /\ words.sandbox = Null
  /\ words' = [words EXCEPT !.sandbox = SandboxText(words.text)]
  /\ lastEvent' = "other"
  /\ UNCHANGED <<bgVars, auto, sends, injection, title, viewer, offscreen, extractor>>

\* the viewer extraction builds its record; the chain hands over a text
\* longer than 50 characters or none
ViewerBuildsRecord ==
  /\ words.pc = "input"
  /\ words.viewer = Null
  /\ words' = [words EXCEPT !.viewer =
                 ViewerText(IF Length(words.text) > 50 THEN words.text ELSE <<>>)]
  /\ lastEvent' = "other"
  /\ UNCHANGED <<bgVars, auto, sends, injection, title, viewer, offscreen, extractor>>

\* the raw-body fallback builds its record from the body's text
FallbackBuildsRecord ==
  /\ words.pc = "input"
  /\ words.fallback = Null
  /\ words' = [words EXCEPT !.fallback = FallbackText(words.text)]
  /\ lastEvent' = "other"
  /\ UNCHANGED <<bgVars, auto, sends, injection, title, viewer, offscreen, extractor>>

\* ------------------------------------ the viewer extraction (older page script)
maxWaitTime == 10000
maxAttempts == 100

\* the time a setTimeout(resolve, 100) takes: the interval, or much longer
\* when the page's timers are throttled
Delays == {100, 5000}

\* what assessPDFLoadState reads from the page
Indicators ==
  [documentReady : BOOLEAN, hasEmbed : BOOLEAN, hasObject : BOOLEAN,
   hasTextLayers : BOOLEAN, hasPageElements : BOOLEAN, hasViewerElements : BOOLEAN,
   bodyTextLength : {100, 101}, totalElements : {20, 21}]

assessPDFLoadStateIgnoresReadyState(ind) ==
  \* mutant: the readyState is not part of the signal
  \/ ind.hasEmbed
  \/ ind.hasObject
  \/ ind.hasTextLayers
  \/ ind.hasPageElements
  \/ ind.hasViewerElements
  \/ ind.bodyTextLength > 100
  \/ ind.totalElements > 20

\* assessPDFLoadState(...).isLoaded
assessPDFLoadState(ind) ==
  ind.documentReady /\ (\/ ind.hasEmbed
                        \/ ind.hasObject
                        \/ ind.hasTextLayers
                        \/ ind.hasPageElements
                        \/ ind.hasViewerElements
                        \/ ind.bodyTextLength > 100
                        \/ ind.totalElements > 20)

\* the chain of extractFromChromePDFViewer, in its order
extractionMethods ==
  <<"extractFromTextLayers", "extractFromPDFPluginContent", "extractUsingClipboard",
    "trySelectAllText", "extractFromEmbedElement">>

\* what a method's call may do: throw, or return a text of 0, 50, 51 or
\* 10009 characters
MethodResults ==
  {Thrown} \cup {Returned(t) : t \in {<<>>, Sentence(<<50>>), Sentence(<<51>>),
                                       Sentence(<<9999, 9>>)}}

ViewerIdle ==
  [pc |-> "idle", attempts |-> 0, elapsed |-> 0, sample |-> Null, loaded |-> FALSE,
   exit |-> "none",
   invoked |-> <<>>, results |-> <<>>, textContent |-> <<>>, successfulMethod |-> "",
   record |-> Null, reply |-> Null]

PollerSamplesEitherLimit(ind) ==
  \* mutant: the loop goes on while either limit is not reached
  /\ viewer.pc = "polling"
  /\ viewer' =
       IF viewer.attempts < maxAttempts \/ viewer.elapsed < maxWaitTime
       THEN IF assessPDFLoadState(ind)
            THEN [viewer EXCEPT !.pc = "chain", !.loaded = TRUE, !.exit = "loaded",
                                !.attempts = 0, !.elapsed = 0, !.sample = ind]
            ELSE [viewer EXCEPT !.pc = "sleeping", !.loaded = FALSE, !.sample = ind]
       ELSE [viewer EXCEPT !.pc = "chain", !.exit = "limit", !.attempts = 0, !.elapsed = 0]
  /\ lastEvent' = "other"
  /\ UNCHANGED <<bgVars, auto, sends, injection, title, words, offscreen, extractor>>

\* waitForPDFLoad: the loop's test and one sample.  The loop ends when a
\* limit is reached or the sample says loaded; then waitForPDFLoad returns
\* (its counters are locals) and the chain starts.  The indicators of the
\* sample are kept until the next step of the extraction.
PollerSamples(ind) ==
  /\ viewer.pc = "polling"
  /\ viewer' =
       IF viewer.attempts < maxAttempts /\ viewer.elapsed < maxWaitTime
       THEN IF assessPDFLoadState(ind)
            THEN [viewer EXCEPT !.pc = "chain", !.loaded = TRUE, !.exit = "loaded",
                                !.attempts = 0, !.elapsed = 0, !.sample = ind]
            ELSE [viewer EXCEPT !.pc = "sleeping", !.loaded = FALSE, !.sample = ind]
       ELSE [viewer EXCEPT !.pc = "chain", !.exit = "limit", !.attempts = 0, !.elapsed = 0]
  /\ lastEvent' = "other"
  /\ UNCHANGED <<bgVars, auto, sends, injection, title, words, offscreen, extractor>>

\* the loop's timer fires after d milliseconds; attempts++
TimerElapses(d) ==
  /\ viewer.pc = "sleeping"
  /\ viewer' = [viewer EXCEPT !.pc = "polling", !.attempts = @ + 1, !.elapsed = @ + d,
                              !.sample = Null]
  /\ lastEvent' = "other"
  /\ UNCHANGED <<bgVars, auto, sends, injection, title, words, offscreen, extractor>>

InvokeMethodAtLeastThreshold(r) ==
  \* mutant: a result of 50 characters is accepted
  /\ viewer.pc = "chain"
  /\ LET i == Len(viewer.invoked) + 1
         accepted == ~r.threw /\ r.value # <<>> /\ Length(r.value) >= 50
     IN viewer' = [viewer EXCEPT
                     !.invoked = Append(@, extractionMethods[i]),
                     !.results = Append(@, r),
                     !.sample = Null,
                     !.textContent = IF accepted THEN r.value ELSE @,
                     !.successfulMethod = IF accepted THEN extractionMethods[i] ELSE @,
                     !.pc = IF accepted \/ i = Len(extractionMethods)
                            THEN "record" ELSE "chain"]
  /\ lastEvent' = "other"
  /\ UNCHANGED <<bgVars, auto, sends, injection, title, words, offscreen, extractor>>

InvokeMethodThrowEscapes(r) ==
  \* mutant: the loop's body has no try/catch
  /\ viewer.pc = "chain"
  /\ LET i == Len(viewer.invoked) + 1
         accepted == ~r.threw /\ r.value # <<>> /\ Length(r.value) > 50
     IN viewer' = [viewer EXCEPT
                     !.invoked = Append(@, extractionMethods[i]),
                     !.results = Append(@, r),
                     !.sample = Null,
                     !.textContent = IF accepted THEN r.value ELSE @,
                     !.successfulMethod = IF accepted THEN extractionMethods[i] ELSE @,
                     !.pc = IF r.threw THEN "failed"
                            ELSE IF accepted \/ i = Len(extractionMethods)
                            THEN "record" ELSE "chain"]
  /\ lastEvent' = "other"
  /\ UNCHANGED <<bgVars, auto, sends, injection, title, words, offscreen, extractor>>

\* one pass of the loop over extractionMethods: the next method is called
\* inside a try; a result longer than 50 characters is taken and ends the
\* loop, any other result and a throw go on to the next method
InvokeMethod(r) ==
  /\ viewer.pc = "chain"
  /\ LET i == Len(viewer.invoked) + 1
         accepted == ~r.threw /\ r.value # <<>> /\ Length(r.value) > 50
     IN viewer' = [viewer EXCEPT
                     !.invoked = Append(@, extractionMethods[i]),
                     !.results = Append(@, r),
                     !.sample = Null,
                     !.textContent = IF accepted THEN r.value ELSE @,
                     !.successfulMethod = IF accepted THEN extractionMethods[i] ELSE @,
                     !.pc = IF accepted \/ i = Len(extractionMethods)
                            THEN "record" ELSE "chain"]
  /\ lastEvent' = "other"
  /\ UNCHANGED <<bgVars, auto, sends, injection, title, words, offscreen, extractor>>

\* the rest of extractFromChromePDFViewer: the page count is estimated, a
\* missing text is replaced by the report, the record is returned
ViewerReturns(d) ==
  /\ viewer.pc = "record"
  /\ viewer' = [viewer EXCEPT
                  !.pc = "returned",
                  !.record = [ViewerRecord(tabUrl[AutoTab], d) EXCEPT
                                !.textContent = ViewerText(viewer.textContent).textContent,
                                !.wordCount = ViewerText(viewer.textContent).wordCount]]
  /\ lastEvent' = "other"
  /\ UNCHANGED <<bgVars, auto, sends, injection, title, words, offscreen, extractor>>

\* the page's extractContent listener: then answers success=true with the
\* record, catch answers success=false
ExtractContentListenerReplies ==
  /\ viewer.pc \in {"returned", "failed"}
  /\ viewer' = [viewer EXCEPT
                  !.pc = "replied",
                  !.reply = IF viewer.pc = "returned"
                            THEN Success(viewer.record)
                            ELSE Failure("other")]
  /\ lastEvent' = "other"
  /\ UNCHANGED <<bgVars, auto, sends, injection, title, words, offscreen, extractor>>

\* ------------------------------------------ the sandbox's page loop (offscreen.ts)
MaxPages == 3

\* the items of a page as getTextContent gives them: each item's str is a
\* sequence of characters
PageItems ==
  {<<>>,
   <<<<"A">>>>,
   <<<<"B">>, <<"B">>>>,
   <<<<"C">>, <<"C">>, <<"C">>>>,
   <<<<"B", " ", "B">>>>,
   <<<<>>, <<"A">>>>}

\* the documents the library loads: numPages pages
Documents == UNION {[1..n -> PageItems] : n \in 0..MaxPages}

RECURSIVE joinIgnoringSeparator(_, _)
joinIgnoringSeparator(items, sep) ==
  \* mutant: the items are concatenated as they are
  IF items = <<>> THEN <<>>
  ELSE Head(items) \o joinIgnoringSeparator(Tail(items), sep)

\* Array.prototype.join
RECURSIVE join(_, _)
join(items, sep) ==
  IF items = <<>> THEN <<>>
  ELSE IF Len(items) = 1 THEN Head(items)
  ELSE Head(items) \o sep \o join(Tail(items), sep)

\* the characters \s matches
IsSpace(c) == c \in {" ", "\n"}

\* a string as a text: its runs of word and of whitespace characters
RECURSIVE Runs(_)
Runs(str) ==
  IF str = <<>> THEN <<>>
  ELSE LET rest == Runs(Tail(str))
           w == ~IsSpace(Head(str))
       IN IF rest # <<>> /\ rest[1].w = w
          THEN <<[w |-> w, n |-> rest[1].n + 1]>> \o Tail(rest)
          ELSE <<[w |-> w, n |-> 1]>> \o rest

LoadOutcomes == {"ok", "fetchFail", "parseFail"}

OffscreenIdle ==
  [pc |-> "idle", pages |-> <<>>, i |-> 0, requested |-> <<>>, fullText |-> <<>>,
   response |-> Null]

\* the object extractPDF returns
extractPDFResult(o) ==
  [PDFContent(tabUrl[AutoTab]) EXCEPT
     !.textContent = SandboxText(Runs(o.fullText)).textContent,
     !.wordCount = SandboxText(Runs(o.fullText)).wordCount,
     !.pageCount = Len(o.pages)]

\* the loop's test `i <= pageCount`: the next page is requested, or
\* extractPDF returns and the listener answers with the record
LoopTest(o) ==
  IF o.i <= Len(o.pages)
  THEN [o EXCEPT !.pc = "getPage", !.requested = Append(@, o.i)]
  ELSE [o EXCEPT !.pc = "done", !.response = Success(extractPDFResult(o))]

\* fetch, arrayBuffer and getDocument settle: the loop starts at page 1, or
\* extractPDF throws and the listener's catch answers success=false
DocumentLoads(outcome) ==
  /\ offscreen.pc = "loading"
  /\ offscreen' =
       IF outcome = "ok"
       THEN LoopTest([offscreen EXCEPT !.i = 1])
       ELSE [offscreen EXCEPT !.pc = "done",
                              !.response = OffscreenResponse(tabUrl[AutoTab], outcome)]
  /\ lastEvent' = "other"
  /\ UNCHANGED <<bgVars, auto, sends, injection, title, words, viewer, extractor>>

\* pdf.getPage(i) settles: getTextContent is called on the page
PageResolves(ok) ==
  /\ offscreen.pc = "getPage"
  /\ offscreen' =
       IF ok
       THEN [offscreen EXCEPT !.pc = "getTextContent"]
       ELSE [offscreen EXCEPT !.pc = "done", !.response = Failure("other")]
  /\ lastEvent' = "other"
  /\ UNCHANGED <<bgVars, auto, sends, injection, title, words, viewer, extractor>>

\* page.getTextContent() settles: the items are joined, the page's text and
\* the separator are appended, i++ and the loop's test
TextContentResolves(ok) ==
  /\ offscreen.pc = "getTextContent"
  /\ offscreen' =
       IF ok
       THEN LoopTest([offscreen EXCEPT
                        !.fullText = @ \o join(offscreen.pages[offscreen.i], <<" ">>)
                                       \o <<"\n", "\n">>,
                        !.i = @ + 1])
       ELSE [offscreen EXCEPT !.pc = "done", !.response = Failure("other")]
  /\ lastEvent' = "other"
  /\ UNCHANGED <<bgVars, auto, sends, injection, title, words, viewer, extractor>>

\* ------------------------- the page's extractContent handler (content.ts)
\* the schemes of the page's locator
Schemes == {"http", "https", "file"}

\* the texts of the document and of the page's body
ExtractorTexts == {t \in Texts : Len(t) <= 2}

ExtractorIdle ==
  [pc |-> "idle", scheme |-> "file", text |-> <<>>, tried |-> <<>>, failed |-> <<>>,
   record |-> Null, reply |-> Null]

\* the object a step returns: the path that built it and its text fields
StepRecord(path, fields) ==
  [path |-> path, url |-> tabUrl[AutoTab], textContent |-> fields.textContent,
   wordCount |-> fields.wordCount]

\* extractUsingPDFJS: the text is counted, then cut
ByUrlText(fullText) ==
  [textContent |-> substring(fullText, 10000), wordCount |-> countWords(fullText)]

\* extractFallbackText is called and returns its record
FallbackStep(e, failedStep) ==
  [e EXCEPT !.pc = "returned",
            !.tried = Append(@, "extractFallbackText"),
            !.failed = Append(@, failedStep),
            !.record = StepRecord("extractFallbackText", FallbackText(e.text))]

\* the listener takes an extractContent message: a new extractor is built
\* (its pdfjsLib is the imported module) and extractPDFContent starts with
\* the byte-fetch extraction
OnExtractContent ==
  /\ extractor.pc = "received"
  /\ extractor' = [extractor EXCEPT !.pc = "arrayBuffer",
                                    !.tried = <<"extractUsingPDFJSWithArrayBuffer">>]
  /\ lastEvent' = "other"
  /\ UNCHANGED <<bgVars, auto, sends, injection, title, words, viewer, offscreen>>

\* extractUsingPDFJSWithArrayBuffer settles: its record is returned; when
\* it throws, the by-URL extraction follows for http and https locators and
\* the fallback for the others
ArrayBufferExtractionSettles(ok) ==
  /\ extractor.pc = "arrayBuffer"
  /\ extractor' =
       IF ok
       THEN [extractor EXCEPT
               !.pc = "returned",
               !.record = StepRecord("extractUsingPDFJSWithArrayBuffer",
                                     SandboxText(extractor.text))]
       ELSE IF extractor.scheme \in {"http", "https"}
       THEN [extractor EXCEPT
               !.pc = "byUrl",
               !.tried = Append(@, "extractUsingPDFJS"),
               !.failed = Append(@, "extractUsingPDFJSWithArrayBuffer")]
       ELSE FallbackStep(extractor, "extractUsingPDFJSWithArrayBuffer")
  /\ lastEvent' = "other"
  /\ UNCHANGED <<bgVars, auto, sends, injection, title, words, viewer, offscreen>>

ByUrlExtractionSettlesRethrows(ok) ==
  \* mutant: extractUsingPDFJS has no catch of its own and the caller's
  \* catch rethrows
  /\ extractor.pc = "byUrl"
  /\ extractor' =
       IF ok
       THEN [extractor EXCEPT
               !.pc = "returned",
               !.record = StepRecord("extractUsingPDFJS", ByUrlText(extractor.text))]
       ELSE [extractor EXCEPT !.pc = "failed", !.failed = Append(@, "extractUsingPDFJS")]
  /\ lastEvent' = "other"
  /\ UNCHANGED <<bgVars, auto, sends, injection, title, words, viewer, offscreen>>

\* extractUsingPDFJS settles: its record is returned; when the library
\* fails, its own catch returns the fallback's record
ByUrlExtractionSettles(ok) ==
  /\ extractor.pc = "byUrl"
  /\ extractor' =
       IF ok
       THEN [extractor EXCEPT
               !.pc = "returned",
               !.record = StepRecord("extractUsingPDFJS", ByUrlText(extractor.text))]
       ELSE FallbackStep(extractor, "extractUsingPDFJS")
  /\ lastEvent' = "other"
  /\ UNCHANGED <<bgVars, auto, sends, injection, title, words, viewer, offscreen>>

\* the listener's then answers success=true with the record, its catch
\* answers success=false
ExtractorListenerReplies ==
  /\ extractor.pc \in {"returned", "failed"}
  /\ extractor' = [extractor EXCEPT
                     !.pc = "replied",
                     !.reply = IF extractor.pc = "returned"
                               THEN Success(extractor.record)
                               ELSE Failure("other")]
  /\ lastEvent' = "other"
  /\ UNCHANGED <<bgVars, auto, sends, injection, title, words, viewer, offscreen>>

\* ---------------------------------------------------------- specifications
InitWith(urls) ==
  /\ currentPDFContent = Null
  /\ creating = FALSE
  /\ offscreenDocumentCreated = FALSE
  /\ createInFlight = FALSE
  /\ createCalls = 0
  /\ setupCalls = [total |-> 0, ready |-> 0]
  /\ pending = EmptyBag
  /\ finished = EmptyBag
  /\ activeTab = 1
  /\ tabUrl = urls
  /\ pageContent = Null
  /\ lastResponse = Failure("none")
  /\ lastEvent = "other"
  /\ auto = attemptAutoExtraction(0)
  /\ sends = <<>>
  /\ injection = [pc |-> "requesting", outcome |-> "none", response |-> Null,
                  extractedContent |-> Null]

\* the tabs show any of the documents
InitBackground == \E urls \in [Tabs -> Urls] : InitWith(urls)

\* the state in which one page's script is looked at on its own
InitPage == InitWith([t \in Tabs |-> "a.pdf"])

Init ==
  /\ InitBackground
  /\ title = TitleIdle
  /\ words = WordsIdle
  /\ viewer = ViewerIdle
  /\ offscreen = OffscreenIdle
  /\ extractor = ExtractorIdle

OnMessage ==
  \/ \E t \in Tabs, hasUrl \in BOOLEAN : OnExtractPDFFromBackground(t, hasUrl)
  \/ \E hasUrl \in BOOLEAN : OnExtractPDFInViewer(hasUrl)
  \/ \E t \in Tabs, hasData \in BOOLEAN : OnContentReady(t, hasData)
  \/ OnGetPageContent
  \/ OnRequestContent
  \/ OnUnknownAction

Next ==
  \/ OnMessage
  \/ \E ok \in BOOLEAN : CreateDocumentSettles(ok)
  \/ \E q \in Waiting : CreatorResumes(q)
  \/ \E q \in Waiting : WaiterResumes(q)
  \/ \E q \in Waiting, o \in SandboxOutcomes : SandboxReplies(q, o)
  \/ \E q \in Waiting, o \in QueryOutcomes : QuerySettles(q, o)
  \/ \E q \in Waiting, o \in PageOutcomes : PageRepliesToActiveTabRequest(q, o)
  \/ \E q \in Waiting, o \in PageOutcomes : PageRepliesToViewerRequest(q, o)
  \/ \E t \in Tabs, u \in Urls : TabUpdatedLoading(t, u)
  \/ \E t \in Tabs : TabUpdatedOther(t)
  \/ \E t \in Tabs : TabActivated(t)

Spec == Init /\ [][Next]_vars

NextAuto ==
  \/ TimerFires
  \/ \E o \in ExtractOutcomes, d \in Doms : ExtractSettles(o, d)
  \/ \E delivered \in BOOLEAN : SendSettles(delivered)
  \/ \E delivered \in BOOLEAN : FailureSendSettles(delivered)

SpecAuto == Init /\ [][NextAuto]_vars

\* the loop when the page's timers fire and its promises settle
SpecAutoFair == SpecAuto /\ WF_vars(NextAuto)

\* The relays: the requests the privileged context passes on to the sandbox
\* and to the page, the navigation that tears down the page a request was
\* sent to, and the page's own request before injection.
NextRelay ==
  \/ \E t \in Tabs, hasUrl \in BOOLEAN : OnExtractPDFFromBackground(t, hasUrl)
  \/ \E hasUrl \in BOOLEAN : OnExtractPDFInViewer(hasUrl)
  \/ OnGetPageContent
  \/ OnRequestContent
  \/ \E ok \in BOOLEAN : CreateDocumentSettles(ok)
  \/ \E q \in Waiting : CreatorResumes(q)
  \/ \E q \in Waiting : WaiterResumes(q)
  \/ \E q \in Waiting, o \in SandboxOutcomes : SandboxReplies(q, o)
  \/ \E q \in Waiting, o \in QueryOutcomes : QuerySettles(q, o)
  \/ \E q \in Waiting, o \in PageOutcomes : PageRepliesToActiveTabRequest(q, o)
  \/ \E q \in Waiting, o \in PageOutcomes : PageRepliesToViewerRequest(q, o)
  \/ \E t \in Tabs, u \in Urls : TabUpdatedLoading(t, u)
  \/ \E o \in InjectionOutcomes : extractBeforeInjection(o)
  \/ \E delivered \in BOOLEAN : sendToBackground(delivered)

SpecRelay == Init /\ [][NextRelay]_vars

\* title derivation over every locator of the model
InitTitle ==
  /\ InitPage
  /\ title \in {[TitleIdle EXCEPT !.pc = "input", !.locator = loc] : loc \in Locators}
  /\ words = WordsIdle
  /\ viewer = ViewerIdle
  /\ offscreen = OffscreenIdle
  /\ extractor = ExtractorIdle

NextTitle == SandboxDerivesTitle \/ ViewerDerivesTitle

SpecTitle == InitTitle /\ [][NextTitle]_vars

\* the records' text and word count over every text of the model
InitWords ==
  /\ InitPage
  /\ title = TitleIdle
  /\ words \in {[WordsIdle EXCEPT !.pc = "input", !.text = t] : t \in Texts}
  /\ viewer = ViewerIdle
  /\ offscreen = OffscreenIdle
  /\ extractor = ExtractorIdle

NextWords == SandboxBuildsRecord \/ ViewerBuildsRecord \/ FallbackBuildsRecord

SpecWords == InitWords /\ [][NextWords]_vars

\* The extraction requests and the sandbox's lifecycle.  A continuation
\* whose promise has settled is run by the event loop.
NextSetup ==
  \/ \E t \in Tabs, hasUrl \in BOOLEAN : OnExtractPDFFromBackground(t, hasUrl)
  \/ \E ok \in BOOLEAN : CreateDocumentSettles(ok)
  \/ \E q \in Waiting : CreatorResumes(q)
  \/ \E q \in Waiting : WaiterResumes(q)
  \/ \E q \in Waiting, o \in SandboxOutcomes : SandboxReplies(q, o)

SpecSetup ==
  /\ Init
  /\ [][NextSetup]_vars
  /\ WF_vars(\E q \in Waiting : CreatorResumes(q))
  /\ WF_vars(\E q \in Waiting : WaiterResumes(q))

\* The privileged context when the sandbox never replies: the extraction
\* requests, the lifecycle, the contentReady messages and the navigations.
NextSilent ==
  \/ \E t \in Tabs, hasUrl \in BOOLEAN : OnExtractPDFFromBackground(t, hasUrl)
  \/ \E ok \in BOOLEAN : CreateDocumentSettles(ok)
  \/ \E q \in Waiting : CreatorResumes(q)
  \/ \E q \in Waiting : WaiterResumes(q)
  \/ \E t \in Tabs, hasData \in BOOLEAN : OnContentReady(t, hasData)
  \/ \E t \in Tabs, u \in Urls : TabUpdatedLoading(t, u)

SpecSilent == Init /\ [][NextSilent]_vars

\* The display's getPageContent requests, the contentReady messages that
\* fill the cache and the tab events that clear it.
NextCache ==
  \/ OnGetPageContent
  \/ \E t \in Tabs, hasData \in BOOLEAN : OnContentReady(t, hasData)
  \/ \E q \in Waiting, o \in QueryOutcomes : QuerySettles(q, o)
  \/ \E q \in Waiting, o \in PageOutcomes : PageRepliesToActiveTabRequest(q, o)
  \/ \E t \in Tabs, u \in Urls : TabUpdatedLoading(t, u)
  \/ \E t \in Tabs : TabActivated(t)

SpecCache == Init /\ [][NextCache]_vars

\* An extractContent request served by content.ts's extractor.
InitExtractor ==
  /\ InitPage
  /\ title = TitleIdle
  /\ words = WordsIdle
  /\ viewer = ViewerIdle
  /\ offscreen = OffscreenIdle
  /\ extractor \in {[ExtractorIdle EXCEPT !.pc = "received", !.scheme = sc, !.text = t] :
                       sc \in Schemes, t \in ExtractorTexts}

NextExtractor ==
  \/ OnExtractContent
  \/ \E ok \in BOOLEAN : ArrayBufferExtractionSettles(ok)
  \/ \E ok \in BOOLEAN : ByUrlExtractionSettles(ok)
  \/ ExtractorListenerReplies

SpecExtractor == InitExtractor /\ [][NextExtractor]_vars

\* The sandbox's extractPDF on the documents.
InitPages ==
  /\ InitPage
  /\ title = TitleIdle
  /\ words = WordsIdle
  /\ viewer = ViewerIdle
  /\ offscreen \in {[OffscreenIdle EXCEPT !.pc = "loading", !.pages = d] : d \in Documents}
  /\ extractor = ExtractorIdle

NextPages ==
  \/ \E o \in LoadOutcomes : DocumentLoads(o)
  \/ \E ok \in BOOLEAN : PageResolves(ok)
  \/ \E ok \in BOOLEAN : TextContentResolves(ok)

SpecPages == InitPages /\ [][NextPages]_vars

\* An extractContent request served by the viewer extraction.  The timers
\* of the page fire and its jobs run, so a step that can be taken is taken.
InitViewer ==
  /\ InitPage
  /\ title = TitleIdle
  /\ words = WordsIdle
  /\ viewer = [ViewerIdle EXCEPT !.pc = "polling"]
  /\ offscreen = OffscreenIdle
  /\ extractor = ExtractorIdle

NextViewer ==
  \/ \E ind \in Indicators : PollerSamples(ind)
  \/ \E d \in Delays : TimerElapses(d)
  \/ \E r \in MethodResults : InvokeMethod(r)
  \/ \E d \in Doms : ViewerReturns(d)
  \/ ExtractContentListenerReplies

SpecViewer == InitViewer /\ [][NextViewer]_vars /\ WF_vars(NextViewer)

\* ------------------------------------------------------------------ claims
\* the handler q stops waiting in this step: its own continuation ran
Moves(q) == lastEvent' # "clear" /\ CopiesIn(q, pending') < CopiesIn(q, pending)

\* C1: however many setupOffscreenDocument calls are made, and however their
\* awaits interleave with the completion of createDocument, the platform's
\* createDocument call is issued exactly once.
C1_SingleCreation == setupCalls.total > 0 => createCalls = 1

\* two calls were made before the sandbox existed, the creation has settled
\* and both callers have returned
C1_Witness ==
  /\ setupCalls = [total |-> 2, ready |-> 0]
  /\ createCalls = 1
  /\ offscreenDocumentCreated /\ ~creating
  /\ \A q \in Waiting : q.pc = "awaitSandbox"
  /\ BagCardinality(pending) = 2

\* C2 (as claimed): when the successful result of an extraction that was in
\* flight during a clear event arrives, it is not stored in the cache.
C2_StaleResultNotRetained ==
  [][\A q \in Waiting :
       (q.stale /\ Moves(q) /\ lastEvent' = "write")
         => currentPDFContent' = currentPDFContent]_vars

\* C3 (as claimed): every handled message had its response callback invoked
\* exactly once.
C3_ExactlyOneResponse == \A n \in BagToSet(finished) : n = 1

C7_ClearedUntilWrite ==
  [][/\ lastEvent' = "clear" => currentPDFContent' = Null
     /\ (currentPDFContent = Null /\ currentPDFContent' # Null) => lastEvent' = "write"]_vars

\* a clear event has just emptied a cache that a contentReady had filled
C7_Witness == lastEvent = "clear" /\ currentPDFContent = Null /\ pageContent # Null

\* C8 (as claimed): a getPageContent request answered from the cache returns
\* the document of the page in the active tab.
C8_CacheHitIsActivePage ==
  lastEvent = "cacheHit" => lastResponse.data.url = tabUrl[activeTab]

\* C9: once offscreenDocumentCreated is true it stays true, no createDocument
\* call is issued any more, and a setupOffscreenDocument call returns at
\* once: its caller goes on to wait for the sandbox's reply.
C9_ReadyIsFinal ==
  [][offscreenDocumentCreated =>
       /\ offscreenDocumentCreated'
       /\ createCalls' = createCalls
       /\ setupCalls'.total > setupCalls.total =>
            \E q \in BagToSet(pending') :
              q.pc = "awaitSandbox" /\ pending' = pending (+) One(q)]_vars

\* a call was made after the flag was set, and only one creation was issued
C9_Witness == offscreenDocumentCreated /\ setupCalls.ready >= 1 /\ createCalls = 1

\* the contentReady messages of the loop that carry an extracted record, and
\* those that carry the failure record
RealSends == SelectSeq(sends, LAMBDA m : ~m.failure)
FailureSends == SelectSeq(sends, LAMBDA m : m.failure)

\* the first maxRetries sends of an extracted record failed and the next one
\* was delivered
FailsThenSucceeds ==
  /\ Len(RealSends) = maxRetries + 1
  /\ \A i \in 1..maxRetries : ~RealSends[i].ok
  /\ RealSends[maxRetries + 1].ok

\* C4: when the send of the extracted record fails on the first 3 attempts
\* and succeeds on the 4th, the privileged context holds the record of the
\* 4th attempt, the loop is over and no failure record was ever sent.
C4_FourthSendDelivers ==
  FailsThenSucceeds =>
    /\ currentPDFContent = RealSends[maxRetries + 1].data
    /\ currentPDFContent.pageCount >= 1
    /\ FailureSends = <<>>
    /\ auto.pc = "done"

C4_Witness == FailsThenSucceeds

\* C5 (as claimed): when the send fails on all 4 attempts, exactly one
\* failure record, with wordCount 0 and pageCount 0, is sent at the end.
C5_PlaceholderAfterExhaustion ==
  (/\ auto.pc = "done"
   /\ Len(RealSends) = maxRetries + 1
   /\ \A i \in 1..Len(RealSends) : ~RealSends[i].ok)
    => /\ Len(FailureSends) = 1
       /\ FailureSends[1].data.wordCount = 0
       /\ FailureSends[1].data.pageCount = 0

C12_ChannelErrorSurfaced ==
  [][/\ lastEvent' = "channelError" =>
          /\ lastResponse' = Failure("channel")
          /\ finished' = finished (+) One(1)
          /\ BagCardinality(pending') = BagCardinality(pending) - 1
     /\ injection'.outcome = "lastError" =>
          /\ injection'.response = Failure("channel")
          /\ injection'.pc = "done"]_vars

\* a channel error was reported to a callback of the privileged context and
\* to the page's callback
C12_Witness ==
  /\ lastEvent = "channelError"
  /\ lastResponse = Failure("channel")
  /\ injection.outcome = "lastError"

\* C13: when the library path fails, by a fetch that is not ok or by the
\* library rejecting the bytes, the sandbox's response is success=false with
\* a message, the privileged context answers the requester once with
\* success=false and that message, and the cache is left as it was.
C13_LibraryFailureForwarded ==
  [][lastEvent' = "libraryFailure" =>
       /\ \A u \in Urls, o \in {"fetchFail", "parseFail"} :
            ~OffscreenResponse(u, o).success /\ OffscreenResponse(u, o).error # "none"
       /\ ~lastResponse'.success
       /\ lastResponse'.error \in {"fetch", "other"}
       /\ finished' = finished (+) One(1)
       /\ currentPDFContent' = currentPDFContent]_vars

\* a fetch failure was forwarded while the cache held a document
C13_Witness ==
  /\ lastEvent = "libraryFailure"
  /\ lastResponse = Failure("fetch")
  /\ currentPDFContent # Null

\* the locator's last segment, percent-decoded as the spec orders the steps
DecodedSegment == decodeURIComponent(fileName(title.locator).value)

\* s without one trailing '.pdf'
StripSuffix(s) ==
  IF Len(s) >= 4 /\ SubSeq(s, Len(s) - 3, Len(s)) = <<".", "p", "d", "f">>
  THEN SubSeq(s, 1, Len(s) - 4)
  ELSE s

\* C18: title derivation returns a string for every locator and never throws;
\* it returns the default label when the locator does not parse and when the
\* decoding step throws.
C18_TitleDerivationTotal ==
  \A r \in {title.sandbox, title.viewer} :
    r # Null =>
      /\ ~r.threw
      /\ fileName(title.locator).threw => r.value = DefaultLabel
      /\ (~fileName(title.locator).threw
            /\ decodeURIComponent(replace(fileName(title.locator).value,
                                          <<".", "p", "d", "f">>)).threw)
           => r.value = DefaultLabel

\* both derivations returned the default label for a last segment with a
\* malformed percent escape
C18_Witness ==
  /\ title.sandbox # Null /\ title.viewer # Null
  /\ title.locator.kind = "absolute"
  /\ title.locator.last = <<"a", "%">>
  /\ title.sandbox.value = DefaultLabel
  /\ title.viewer.value = DefaultLabel

\* C19 (as claimed): the title derived in any context is never empty.
C19_TitleNeverEmpty ==
  \A r \in {title.sandbox, title.viewer} : r # Null => r.value # <<>>

\* C20 (as claimed): for a locator that parses and whose last segment
\* decodes, the title is the decoded segment without one trailing '.pdf'
\* (the default label when that is empty).
C20_DecodeThenStripSuffix ==
  (title.sandbox # Null /\ ~fileName(title.locator).threw /\ ~DecodedSegment.threw
     /\ StripSuffix(DecodedSegment.value) # <<>>)
    => title.sandbox.value = StripSuffix(DecodedSegment.value)

\* C11 (as claimed): in every record, wordCount is the number of
\* whitespace-separated tokens of the record's final text field.
C11_WordCountOfFinalText ==
  \A r \in {words.sandbox, words.viewer, words.fallback} :
    r # Null => r.wordCount = countWords(r.textContent)

\* a method's result clears the threshold
Clears(r) == ~r.threw /\ Length(r.value) > 50

\* C14: the methods are invoked in the order of the list; a result is taken
\* exactly when it is longer than 50 characters, it is the last one
\* invoked, and no method is invoked after it; after a result of 50
\* characters or fewer the chain goes on while a method is left.
C14_FirstClearingMethodWins ==
  /\ Len(viewer.results) = Len(viewer.invoked)
  /\ \A k \in 1..Len(viewer.invoked) : viewer.invoked[k] = extractionMethods[k]
  /\ \A k \in 1..Len(viewer.results) :
       Clears(viewer.results[k]) =>
         /\ k = Len(viewer.results)
         /\ viewer.successfulMethod = extractionMethods[k]
         /\ viewer.textContent = viewer.results[k].value
         /\ viewer.pc # "chain"
  /\ (\A k \in 1..Len(viewer.results) : ~Clears(viewer.results[k]))
       => viewer.successfulMethod = "" /\ viewer.textContent = <<>>
  /\ (/\ viewer.results # <<>>
      /\ Len(viewer.results) < Len(extractionMethods)
      /\ \A k \in 1..Len(viewer.results) : ~Clears(viewer.results[k]))
       => viewer.pc = "chain"

\* the first method returned 50 characters and was passed over, the second
\* returned 51 and ended the chain
C14_Witness ==
  /\ viewer.pc = "replied"
  /\ viewer.results = <<Returned(Sentence(<<50>>)), Returned(Sentence(<<51>>))>>
  /\ viewer.successfulMethod = "extractFromPDFPluginContent"

\* C15: a method that throws is followed by the next method, or by the
\* record when it was the last one; the exception never reaches the
\* caller, and the listener answers with a record.
C15_ThrowDoesNotEscape ==
  [][/\ viewer'.pc # "failed"
     /\ (Len(viewer'.results) > Len(viewer.results)
           /\ viewer'.results[Len(viewer'.results)].threw)
          => viewer'.pc = IF Len(viewer'.results) < Len(extractionMethods)
                          THEN "chain" ELSE "record"
     /\ viewer'.pc = "replied" => viewer'.reply.success /\ viewer'.reply.data # Null]_vars

\* the first method threw and a later one gave the text
C15_Witness ==
  /\ viewer.pc = "replied"
  /\ viewer.results # <<>>
  /\ viewer.results[1].threw
  /\ viewer.successfulMethod # ""
  /\ viewer.reply.success

\* C16: when no method clears the threshold, the listener answers
\* success=true with a record whose text is the report, which is not empty.
C16_ReportWhenNoText ==
  (viewer.pc = "replied" /\ \A k \in 1..Len(viewer.results) : ~Clears(viewer.results[k]))
    => /\ viewer.reply.success
       /\ viewer.reply.data.textContent = generateExtractionReport
       /\ viewer.reply.data.textContent # <<>>

\* all five methods ran, none gave a text, and the listener answered
C16_Witness ==
  /\ viewer.pc = "replied"
  /\ Len(viewer.results) = Len(extractionMethods)
  /\ viewer.successfulMethod = ""
  /\ viewer.reply.success

\* C17: the poller never sleeps after a sample that says loaded, after
\* maxAttempts samples or once maxWaitTime has elapsed; it returns only on
\* such a sample or at a limit; and the chain always starts.
C17_PollerTerminates ==
  /\ [](viewer.pc = "sleeping" =>
          /\ ~viewer.loaded
          /\ viewer.attempts < maxAttempts
          /\ viewer.elapsed < maxWaitTime)
  /\ [][(viewer.pc = "polling" /\ viewer'.pc = "chain") =>
          \/ viewer'.exit = "loaded"
          \/ viewer.attempts >= maxAttempts
          \/ viewer.elapsed >= maxWaitTime]_vars
  /\ <>(viewer.pc = "chain")

\* no sample said loaded, the poller returned at a limit and the chain ran
C17_Witness ==
  /\ viewer.exit = "limit"
  /\ viewer.invoked # <<>>

\* C22: after a navigation-start or a tab activation has been handled, the
\* storage entry no longer holds a document.
C22_PersistedEntryInvalidated == lastEvent = "clear" => pageContent = Null

\* C30: a navigation-start of a tab that is not the active tab leaves the
\* cached document as it is.
C30_BackgroundTabNavigationKeepsCache ==
  [][(\E t \in Tabs : t # activeTab /\ tabUrl'[t] # tabUrl[t])
       => currentPDFContent' = currentPDFContent]_vars

\* C29: when the creation call rejects the flag is set all the same; once
\* the flag is set no creation call is issued again; and every caller that
\* waits for the attempt returns normally, so that its extraction message
\* is sent to the sandbox and nothing is answered at that point.
C29_RejectedCreationCountsAsReady ==
  [][/\ lastEvent' = "creationRejected" => offscreenDocumentCreated' /\ ~createInFlight'
     /\ offscreenDocumentCreated => createCalls' = createCalls /\ offscreenDocumentCreated'
     /\ \A q \in Waiting :
          (q.pc \in {"awaitOwnCreating", "awaitCreating"} /\ Moves(q))
            => /\ CopiesIn([q EXCEPT !.pc = "awaitSandbox"], pending')
                    > CopiesIn([q EXCEPT !.pc = "awaitSandbox"], pending)
               /\ finished' = finished]_vars

\* the creation call has just rejected while a second caller waits for it
C29_Witness ==
  /\ lastEvent = "creationRejected"
  /\ offscreenDocumentCreated
  /\ \E q \in Waiting : q.pc = "awaitCreating"

\* the secondary indicators of a sample
SecondaryIndicator(s) ==
  \/ s.hasEmbed \/ s.hasObject
  \/ s.hasTextLayers
  \/ s.hasPageElements
  \/ s.hasViewerElements
  \/ s.bodyTextLength > 100
  \/ s.totalElements > 20

\* C28: a sample says loaded exactly when the document's load-complete flag
\* is set and a secondary indicator holds; the poller goes on to the chain
\* as loaded exactly on such a sample, and sleeps after any other.
C28_CompositeSignal ==
  viewer.sample # Null =>
    /\ viewer.loaded <=> (viewer.sample.documentReady /\ SecondaryIndicator(viewer.sample))
    /\ viewer.loaded <=> (viewer.pc = "chain" /\ viewer.exit = "loaded")
    /\ ~viewer.loaded <=> viewer.pc = "sleeping"
    /\ ~viewer.sample.documentReady => viewer.pc = "sleeping"

\* the poller sleeps after a sample with every secondary indicator but
\* without the load-complete flag
C28_Witness ==
  /\ viewer.pc = "sleeping"
  /\ viewer.sample # Null
  /\ ~viewer.sample.documentReady
  /\ viewer.sample.hasEmbed /\ viewer.sample.hasTextLayers
  /\ viewer.sample.bodyTextLength > 100 /\ viewer.sample.totalElements > 20

\* the delays of the attempts 0..3
BackoffTable == <<2000, 4000, 8000, 10000>>

\* C27: the loop makes at most 4 attempts, each armed with the delay of the
\* table; an attempt whose send is delivered is the last one; and the loop
\* always ends.
C27_BoundedBackoff ==
  /\ [](/\ auto.retryCount \in 0..maxRetries
        /\ Len(RealSends) <= maxRetries + 1
        /\ auto.delay = BackoffTable[auto.retryCount + 1]
        /\ (\E i \in 1..Len(sends) : sends[i].ok) => auto.pc = "done")
  /\ [][auto'.retryCount # auto.retryCount =>
          /\ auto'.retryCount = auto.retryCount + 1
          /\ auto'.pc = "timer"
          /\ \A i \in 1..Len(sends') : ~sends'[i].ok]_vars
  /\ <>(auto.pc = "done")

\* the timer of the 4th attempt is armed with the capped delay
C27_Witness ==
  /\ auto.pc = "timer"
  /\ auto.retryCount = maxRetries
  /\ auto.delay = 10000
  /\ Len(RealSends) = maxRetries

\* the ceilings of the three paths
LibraryCeiling == 50000
ViewerCeiling == 10000
FallbackCeiling == 1000

\* C26: the text of a record is no longer than the ceiling of its path, and
\* it is the beginning of the whole text the path collected: a text within
\* the ceiling is returned whole.
C26_TextWithinCeiling ==
  /\ words.sandbox # Null =>
       /\ Length(words.sandbox.textContent) <= LibraryCeiling
       /\ Length(words.text) <= LibraryCeiling => words.sandbox.textContent = words.text
       /\ Length(words.text) >= LibraryCeiling =>
            Length(words.sandbox.textContent) = LibraryCeiling
  /\ words.viewer # Null =>
       /\ Length(words.viewer.textContent) <= ViewerCeiling
       /\ (Length(words.text) > 50 /\ Length(words.text) <= ViewerCeiling)
            => words.viewer.textContent = words.text
  /\ words.fallback # Null =>
       /\ Length(words.fallback.textContent) <= FallbackCeiling
       /\ (cleanText(words.text) # <<>> /\ Length(cleanText(words.text)) <= FallbackCeiling)
            => words.fallback.textContent = cleanText(words.text)

\* a text longer than every ceiling went through the three paths
C26_Witness ==
  /\ Length(words.text) > LibraryCeiling
  /\ words.sandbox # Null /\ Length(words.sandbox.textContent) = LibraryCeiling
  /\ words.viewer # Null /\ Length(words.viewer.textContent) = ViewerCeiling
  /\ words.fallback # Null /\ Length(words.fallback.textContent) = FallbackCeiling

\* the text of the first k pages: after every item but the last of a page
\* one space, after every page the blank-line separator
RECURSIVE SpacedItems(_)
SpacedItems(items) ==
  IF Len(items) = 0 THEN <<>>
  ELSE SpacedItems(SubSeq(items, 1, Len(items) - 1))
         \o (IF Len(items) > 1 THEN <<" ">> ELSE <<>>)
         \o items[Len(items)]

RECURSIVE TextOfPages(_, _)
TextOfPages(pages, k) ==
  IF k = 0 THEN <<>>
  ELSE TextOfPages(pages, k - 1) \o SpacedItems(pages[k]) \o <<"\n", "\n">>

\* the number of the words of a string: the maximal runs without whitespace
WordStarts(str) ==
  Cardinality({k \in 1..Len(str) :
                 ~IsSpace(str[k]) /\ (k = 1 \/ IsSpace(str[k - 1]))})

ScenarioPages == <<<<<<"A">>>>, <<<<"B">>, <<"B">>>>, <<<<"C">>, <<"C">>, <<"C">>>>>>
ScenarioText ==
  <<"A", "\n", "\n", "B", " ", "B", "\n", "\n", "C", " ", "C", " ", "C", "\n", "\n">>

\* C21: the pages are requested in the order 1, 2, ..., one after the
\* other; the text collected so far is that of the pages read, each page's
\* items joined by single spaces and followed by the blank-line separator;
\* on success all N pages were read and the record has pageCount N and the
\* word count of the text; the scenario's document gives the scenario's text,
\* 6 words and 3 pages.
C21_PagesInOrder ==
  LET o == offscreen
      N == Len(o.pages)
      read == IF o.pc \in {"getPage", "getTextContent"} THEN Len(o.requested) - 1
              ELSE IF o.pc = "done" THEN N
              ELSE 0
  IN /\ \A k \in 1..Len(o.requested) : o.requested[k] = k
     /\ Len(o.requested) <= N
     /\ o.pc \in {"getPage", "getTextContent"} => o.i = Len(o.requested)
     /\ o.pc # "done" \/ (o.response # Null /\ o.response.success)
          => o.fullText = TextOfPages(o.pages, read)
     /\ (o.pc = "done" /\ o.response.success) =>
          /\ Len(o.requested) = N
          /\ o.response.data.pageCount = N
          /\ o.response.data.wordCount = WordStarts(o.fullText)
          /\ o.response.data.textContent = Runs(o.fullText)
          /\ o.pages = ScenarioPages =>
               /\ o.fullText = ScenarioText
               /\ o.response.data.wordCount = 6
               /\ o.response.data.pageCount = 3

\* the scenario's document has been read and answered
C21_Witness ==
  /\ offscreen.pc = "done"
  /\ offscreen.pages = ScenarioPages
  /\ offscreen.response.success
  /\ offscreen.requested = <<1, 2, 3>>

\* the handler q leaves the bag and nothing enters it
Ends(q) == pending' = pending (-) One(q)

\* C25: a getPageContent request that finds a document in the cache is
\* answered with it at once and starts nothing; one that finds the cache
\* empty starts one extraction, which sends at most one extractContent, to
\* the tab that is active when the query settles, and answers once; a
\* successful result is the answer and the new content of the cache.
C25_CacheHitOrOneExtraction ==
  [][/\ lastEvent' = "cacheHit" =>
          /\ currentPDFContent # Null
          /\ lastResponse' = Success(currentPDFContent)
          /\ pending' = pending
          /\ finished' = finished (+) One(1)
     /\ BagCardinality(pending') > BagCardinality(pending) =>
          /\ currentPDFContent = Null
          /\ pending' = pending (+) One(Handler("extractContentFromActiveTab", "", "awaitQuery"))
          /\ finished' = finished /\ lastResponse' = lastResponse
     /\ \A q \in Waiting :
          Moves(q) =>
            IF q.pc = "awaitQuery"
            THEN \/ /\ Continue(q, [q EXCEPT !.pc = "awaitPage", !.target = activeTab])
                    /\ finished' = finished
                 \/ /\ Ends(q)
                    /\ finished' = finished (+) One(1)
                    /\ ~lastResponse'.success
            ELSE /\ q.pc = "awaitPage"
                 /\ Ends(q)
                 /\ finished' = finished (+) One(1)
                 /\ lastResponse'.success =>
                      /\ lastResponse'.data = PDFContent(tabUrl[q.target])
                      /\ currentPDFContent' = lastResponse'.data]_vars

\* a getPageContent request found the cache empty, its extraction came back
\* with a record, and the record is answered and cached
C25_Witness ==
  /\ lastEvent = "write"
  /\ lastResponse.success /\ lastResponse.data # Null
  /\ currentPDFContent = lastResponse.data
  /\ 1 \in BagToSet(finished)

\* C24: the cache changes only when a result or a contentReady record
\* arrives and when a tab event clears it; each arrival replaces the cache
\* by the record that arrived, whatever the cache held and whenever the
\* request was issued.
C24_LastWriteWins ==
  [][/\ currentPDFContent' # currentPDFContent => lastEvent' \in {"write", "clear"}
     /\ lastEvent' = "clear" => currentPDFContent' = Null
     /\ lastEvent' = "write" =>
          /\ currentPDFContent' # Null
          /\ currentPDFContent' = IF lastResponse'.data # Null
                                  THEN lastResponse'.data
                                  ELSE pageContent']_vars

\* a contentReady record of b.pdf was cached, then the result of an
\* extraction of a.pdf arrived and replaced it
C24_Witness ==
  /\ lastEvent = "write"
  /\ BagCardinality(finished) = 2
  /\ pageContent = PDFContent("b.pdf")
  /\ lastResponse = Success(PDFContent("a.pdf"))
  /\ currentPDFContent = PDFContent("a.pdf")

\* an extractPDFFromBackground request waits for the creation of the
\* sandbox or for the sandbox's reply
ExtractionPending ==
  \E q \in Waiting : /\ q.fn = "extractPDFInBackground"
                     /\ q.pc \in {"awaitOwnCreating", "awaitCreating", "awaitSandbox"}

\* C23: while an extraction request is pending, the listener takes every
\* other message and the tab listeners take their events.
C23_PendingExtractionDoesNotBlock ==
  (ExtractionPending /\ CanReceive) =>
    /\ ENABLED OnGetPageContent
    /\ ENABLED OnRequestContent
    /\ ENABLED OnUnknownAction
    /\ \A t \in Tabs :
         /\ \A b \in BOOLEAN : /\ ENABLED OnContentReady(t, b)
                               /\ ENABLED OnExtractPDFFromBackground(t, b)
         /\ \A u \in Urls : ENABLED TabUpdatedLoading(t, u)
         /\ t # activeTab => ENABLED TabActivated(t)
    /\ \A b \in BOOLEAN : ENABLED OnExtractPDFInViewer(b)

\* a contentReady message was answered while an extraction request waits
\* for the sandbox's reply
C23_Witness ==
  /\ \E q \in Waiting : q.fn = "extractPDFInBackground" /\ q.pc = "awaitSandbox"
  /\ lastEvent = "write"
  /\ lastResponse = Success(Null)
  /\ 1 \in BagToSet(finished)

\* a contentReady message has been handled in this step: it is the only
\* message answered with {success: true} and no data
ContentReadyAnswered == finished' = finished (+) One(1) /\ lastResponse' = Success(Null)

\* C35: a contentReady message without data changes neither the cache nor
\* the storage entry; one with data makes both the cache and the storage
\* entry that record; either is answered once with success=true.
C35_ContentReadyFrame ==
  [][ContentReadyAnswered =>
       /\ pending' = pending
       /\ IF lastEvent' = "write"
          THEN /\ \E t \in Tabs : currentPDFContent' = PDFContent(tabUrl[t])
               /\ pageContent' = currentPDFContent'
          ELSE /\ currentPDFContent' = currentPDFContent
               /\ pageContent' = pageContent]_vars

\* a record was cached, then a contentReady message without data was
\* answered and the record is still there
C35_Witness ==
  /\ lastEvent = "other"
  /\ lastResponse = Success(Null)
  /\ BagCardinality(finished) = 2
  /\ currentPDFContent # Null
  /\ pageContent = currentPDFContent

\* C34: the storage entry changes only when a contentReady message with
\* data is handled, and then to that data; a successful extraction result
\* becomes the cache and leaves the storage entry as it was.
C34_StorageWrittenByContentReadyOnly ==
  [][/\ pageContent' # pageContent =>
          /\ ContentReadyAnswered
          /\ lastEvent' = "write"
          /\ pageContent' = currentPDFContent'
     /\ (lastEvent' = "write" /\ lastResponse'.data # Null) =>
          /\ currentPDFContent' = lastResponse'.data
          /\ pageContent' = pageContent]_vars

\* the storage entry holds the contentReady record of a.pdf while the cache
\* holds the later extraction result of b.pdf
C34_Witness ==
  /\ lastEvent = "write"
  /\ lastResponse = Success(PDFContent("b.pdf"))
  /\ pageContent = PDFContent("a.pdf")
  /\ currentPDFContent = PDFContent("b.pdf")

\* C36: the page sends contentReady only after a successful response, with
\* the record of that response, and once: the script goes from its request
\* to the send and from the send to its end, never back.  After a failure
\* or a channel error nothing is sent and the local record is the
\* placeholder with wordCount 0 and pageCount 1.
C36_ContentReadyAfterSuccessOnly ==
  [][/\ injection'.pc = "sendToBackground" =>
          /\ injection'.response.success
          /\ injection'.extractedContent = injection'.response.data
     /\ injection.pc = "sendToBackground" => injection'.pc \in {"sendToBackground", "done"}
     /\ injection.pc = "done" => injection' = injection
     /\ (injection.pc = "sendToBackground" /\ injection'.pc = "done") =>
          /\ injection'.extractedContent = injection.extractedContent
          /\ ContentReadyAnswered =>
               /\ currentPDFContent' = injection.response.data
               /\ pageContent' = injection.response.data
     /\ (injection.pc = "requesting" /\ injection'.pc = "done") =>
          /\ ~injection'.response.success
          /\ injection'.extractedContent = InjectionFailureRecord(tabUrl[AutoTab])
          /\ injection'.extractedContent.wordCount = 0
          /\ injection'.extractedContent.pageCount = 1
          /\ UNCHANGED bgVars]_vars

\* the page's request succeeded and its contentReady message has just been
\* handled with the record of the response
C36_Witness ==
  /\ injection.pc = "done"
  /\ injection.outcome = "ok"
  /\ lastEvent = "write"
  /\ lastResponse = Success(Null)
  /\ currentPDFContent = injection.response.data

\* the order of the steps of the handler
StepOrder == <<"extractUsingPDFJSWithArrayBuffer", "extractUsingPDFJS", "extractFallbackText">>
StepRank(name) == CHOOSE k \in 1..Len(StepOrder) : StepOrder[k] = name

\* C37: the steps are tried in the order byte-fetch, by-URL, fallback,
\* beginning with the byte-fetch; the by-URL step only for http and https
\* locators and never skipped for them; a step is tried only after every
\* step tried before it has failed; the record returned is that of the
\* last step tried; and the reply is success=true with that record.
C37_FallbackChainAlwaysAnswers ==
  LET e == extractor
  IN /\ e.pc # "failed"
     /\ e.tried # <<>> => e.tried[1] = StepOrder[1]
     /\ \A k \in 1..(Len(e.tried) - 1) :
          /\ StepRank(e.tried[k]) < StepRank(e.tried[k + 1])
          /\ e.failed[k] = e.tried[k]
     /\ Len(e.failed) = (IF Len(e.tried) = 0 THEN 0 ELSE Len(e.tried) - 1)
     /\ (\E k \in 1..Len(e.tried) : e.tried[k] = "extractUsingPDFJS")
          <=> (e.scheme \in {"http", "https"} /\ Len(e.tried) >= 2)
     /\ e.record # Null => e.record.path = e.tried[Len(e.tried)]
     /\ e.pc = "replied" => /\ e.reply.success
                            /\ e.reply.data = e.record
                            /\ e.record # Null

\* for an https locator both library steps failed and the handler answered
\* with the fallback's record
C37_Witness ==
  /\ extractor.pc = "replied"
  /\ extractor.scheme = "https"
  /\ extractor.tried = StepOrder
  /\ extractor.reply.success
  /\ extractor.reply.data.path = "extractFallbackText"

\* the callers that wait inside setupOffscreenDocument
AwaitingSetup == {q \in Waiting : q.pc \in {"awaitOwnCreating", "awaitCreating"}}
\* the requests whose extraction message has been sent to the sandbox
SentToSandbox == {q \in Waiting : q.pc = "awaitSandbox"}

\* C32: whenever a request's extraction message has been sent, the sandbox
\* flag is true and no creation call is in flight; a caller that waits for the
\* creation sends its message only in a step that begins with the flag true.
C32_MessageAfterSetup ==
  [][/\ SentToSandbox' # {} => offscreenDocumentCreated' /\ ~createInFlight'
     /\ \A q \in AwaitingSetup : Moves(q) => offscreenDocumentCreated /\ ~createInFlight]_vars

\* two callers, neither of which found the flag set, have both sent their
\* message after the one creation call
C32_Witness ==
  /\ setupCalls.total = 2 /\ setupCalls.ready = 0
  /\ createCalls = 1
  /\ BagCardinality(pending) = 2
  /\ AwaitingSetup = {}
  /\ SentToSandbox # {}
  /\ offscreenDocumentCreated

\* C33: the marker of a creation in flight is set only while the caller that
\* issued the creation is still inside setupOffscreenDocument; and if every
\* creation call completes, callers waiting inside setupOffscreenDocument
\* lead to a state where none waits, the marker is reset and the flag is true.
C33_SetupReturns ==
  /\ [](creating => \E q \in Waiting : q.pc = "awaitOwnCreating")
  /\ (createInFlight ~> ~createInFlight)
       => (AwaitingSetup # {} ~> (AwaitingSetup = {} /\ ~creating /\ offscreenDocumentCreated))

\* the creator and a caller that joined its attempt have both returned and
\* the marker is reset
C33_Witness ==
  /\ setupCalls.total = 2 /\ setupCalls.ready = 0
  /\ createCalls = 1
  /\ Cardinality(SentToSandbox) + BagCardinality(finished) >= 1
  /\ BagCardinality(pending) + BagCardinality(finished) = 2
  /\ AwaitingSetup = {}
  /\ ~creating /\ ~createInFlight /\ offscreenDocumentCreated

\* the number of requests whose extraction message has been sent
SentCount == BagCardinality([q \in SentToSandbox |-> CopiesIn(q, pending)])

\* C31: while the sandbox does not reply, a request whose extraction message
\* has been sent stays unanswered: no step ends it, the only responses are
\* those of contentReady messages, the cache changes only by a contentReady
\* message or a navigation, and the sandbox stays created, with no further
\* creation call.
C31_NoTimeoutOnLibraryPath ==
  [][/\ SentCount' >= SentCount
     /\ finished' # finished => finished' = finished (+) One(0) \/ ContentReadyAnswered
     /\ lastResponse' \in {lastResponse, Success(Null)}
     /\ currentPDFContent' # currentPDFContent => lastEvent' \in {"write", "clear"}
     /\ SentCount > 0 => /\ offscreenDocumentCreated /\ offscreenDocumentCreated'
                         /\ createCalls' = createCalls]_vars

\* a request's message has been sent and stays open while a contentReady
\* message has been stored and answered
C31_Witness ==
  /\ SentCount = 1
  /\ AwaitingSetup = {}
  /\ ~creating
  /\ currentPDFContent # Null
  /\ lastResponse = Success(Null)
  /\ finished = One(1)

====
